---- MODULE Spec2Model ----
(***************************************************************************)
(* A model of rcpdaemon's authentication core: the AuthProvider variants   *)
(* (Mock and the four OS-native providers), the AuthProviderFactory, the   *)
(* AuthManager with its fallback-to-internal path, and the group to        *)
(* permission mapping; and, around that core, the shutdown channel of      *)
(* Service and ServiceLifecycle, the server's UserManager, and the Server  *)
(* with its sessions.                                                      *)
(*                                                                         *)
(* Strings are sequences of one-character strings, so that contains,      *)
(* starts_with, ends_with and trim_end_matches are computed as the Rust    *)
(* standard library computes them.                                         *)
(***************************************************************************)
EXTENDS Integers, Sequences, FiniteSets, TLC

VARIABLES
    platform,      \* the target_os the daemon was built for
    config,        \* AuthManager.config (AuthConfig)
    provider,      \* AuthManager.provider (the active provider object)
    initialized,   \* AuthManager.initialized
    os,            \* the identity source: accounts and their groups
    initCalls,     \* how many times the active provider's initialize() ran
    request,       \* the permission query a caller is about to make, if any
    rt,            \* the async runtime: tasks, worker threads, the provider lock
    shutdown,      \* the shutdown channel of Service / ServiceLifecycle and its ends
    store,         \* server::user::UserManager: the users map and the calls on it
    server,        \* server::Server: running, the sessions map, its locks and tasks
    call           \* the last completed call: operation, arguments, result

vars == <<platform, config, provider, initialized, os, initCalls, request, rt,
          shutdown, store, server, call>>

-----------------------------------------------------------------------------
(* Bounds *)

\* longest requested permission string drawn by the wildcard checks
MaxPermLen == 4

\* longest resolved group list drawn by the permission-mapping checks
MaxGroups == 2

\* how many tasks call the manager at the same time
MaxTasks == 2

\* how many stop() calls are made on one Service or ServiceLifecycle
MaxStops == 3

\* how many times initialize() of one provider object is run
MaxInitCalls == 3

\* how many connections the server accepts
MaxSessions == 2

-----------------------------------------------------------------------------
(* Strings (str) *)

starts_with(s, p) ==
    /\ Len(p) <= Len(s)
    /\ SubSeq(s, 1, Len(p)) = p

ends_with(s, p) ==
    /\ Len(p) <= Len(s)
    /\ SubSeq(s, Len(s) - Len(p) + 1, Len(s)) = p

contains(s, p) ==
    \E i \in 0..(Len(s) - Len(p)) : SubSeq(s, i + 1, i + Len(p)) = p

\* str::trim_end_matches: strips the suffix repeatedly
RECURSIVE trim_end_matches(_, _)
trim_end_matches(s, p) ==
    IF Len(p) > 0 /\ ends_with(s, p)
    THEN trim_end_matches(SubSeq(s, 1, Len(s) - Len(p)), p)
    ELSE s

\* str::trim_start_matches: strips the prefix repeatedly
RECURSIVE trim_start_matches(_, _)
trim_start_matches(s, p) ==
    IF Len(p) > 0 /\ starts_with(s, p)
    THEN trim_start_matches(SubSeq(s, Len(p) + 1, Len(s)), p)
    ELSE s

\* Vec::contains
vec_contains(v, x) == \E i \in 1..Len(v) : v[i] = x

\* the elements of a Vec, as a set
Elems(v) == {v[i] : i \in 1..Len(v)}

\* all sequences over S of length 0..n
SeqsUpTo(S, n) == UNION {[1..k -> S] : k \in 0..n}

\* slice::join(" ") of a list of strings
RECURSIVE join_space(_)
join_space(v) ==
    IF Len(v) = 0 THEN <<>>
    ELSE IF Len(v) = 1 THEN v[1]
    ELSE v[1] \o <<" ">> \o join_space(Tail(v))

-----------------------------------------------------------------------------
(* String literals of the source *)

str_native == <<"n","a","t","i","v","e">>
str_colon_star == <<":","*">>

name_linux == <<"l","i","n","u","x","-","n","a","t","i","v","e">>
name_macos == <<"m","a","c","o","s","-","n","a","t","i","v","e">>
name_windows == <<"w","i","n","d","o","w","s","-","n","a","t","i","v","e">>
name_unix == <<"u","n","i","x","-","n","a","t","i","v","e">>
name_mock == <<"m","o","c","k","-","p","r","o","v","i","d","e","r">>

perm_admin_all == <<"a","d","m","i","n",":","*">>
perm_connect_all == <<"c","o","n","n","e","c","t",":","*">>
perm_app_all == <<"a","p","p",":","*">>
perm_connect_basic == <<"c","o","n","n","e","c","t",":","b","a","s","i","c">>
perm_api_read == <<"a","p","i",":","r","e","a","d">>
perm_api_write == <<"a","p","i",":","w","r","i","t","e">>
str_app_colon == <<"a","p","p",":">>

grp_administrators == <<"a","d","m","i","n","i","s","t","r","a","t","o","r","s">>
grp_wheel == <<"w","h","e","e","l">>
grp_sudo == <<"s","u","d","o">>
grp_admin == <<"a","d","m","i","n">>
grp_rcp_users == <<"r","c","p","-","u","s","e","r","s">>

-----------------------------------------------------------------------------
(* Text of the identity source's tools, and the std operations that parse it *)

str_space == <<" ">>
str_newline == <<"\n">>

IsWhitespace(c) == c = " " \/ c = "\n"

\* str::find: the first index (1-based) where p occurs in s, 0 for None
find(s, p) ==
    IF contains(s, p)
    THEN CHOOSE i \in 1..(Len(s) - Len(p) + 1) :
            /\ SubSeq(s, i, i + Len(p) - 1) = p
            /\ \A j \in 1..(i - 1) : SubSeq(s, j, j + Len(p) - 1) # p
    ELSE 0

\* str::split(c) on a one-character delimiter: every piece, empty ones included
RECURSIVE split(_, _)
split(s, c) ==
    IF \E i \in 1..Len(s) : s[i] = c
    THEN LET i == CHOOSE k \in 1..Len(s) :
                     s[k] = c /\ \A j \in 1..(k - 1) : s[j] # c
         IN <<SubSeq(s, 1, i - 1)>> \o split(SubSeq(s, i + 1, Len(s)), c)
    ELSE <<s>>

\* str::trim
RECURSIVE trim(_)
trim(s) ==
    IF Len(s) > 0 /\ IsWhitespace(s[1]) THEN trim(Tail(s))
    ELSE IF Len(s) > 0 /\ IsWhitespace(s[Len(s)]) THEN trim(SubSeq(s, 1, Len(s) - 1))
    ELSE s

\* str::split_whitespace: the non-empty runs of non-whitespace characters
RECURSIVE split_whitespace(_)
split_whitespace(s) ==
    LET t == trim(s)
    IN IF Len(t) = 0 THEN <<>>
       ELSE IF \E i \in 1..Len(t) : IsWhitespace(t[i])
       THEN LET i == CHOOSE k \in 1..Len(t) :
                        IsWhitespace(t[k]) /\ \A j \in 1..(k - 1) : ~IsWhitespace(t[j])
            IN <<SubSeq(t, 1, i - 1)>> \o split_whitespace(SubSeq(t, i + 1, Len(t)))
       ELSE <<t>>

\* str::lines: split on the newline, without a final empty line
lines(s) ==
    LET ps == split(s, "\n")
    IN IF Len(ps) > 0 /\ ps[Len(ps)] = <<>> THEN SubSeq(ps, 1, Len(ps) - 1) ELSE ps

\* slice::join(",")
RECURSIVE join_comma(_)
join_comma(v) ==
    IF Len(v) = 0 THEN <<>>
    ELSE IF Len(v) = 1 THEN v[1]
    ELSE v[1] \o <<",">> \o join_comma(Tail(v))

\* the concatenation of a list of strings
RECURSIVE concat(_)
concat(v) == IF Len(v) = 0 THEN <<>> ELSE v[1] \o concat(Tail(v))

-----------------------------------------------------------------------------
(* Option and Result *)

None == [some |-> FALSE]
Some(x) == [some |-> TRUE, val |-> x]

Ok(v) == [ok |-> TRUE, val |-> v]
Err(e) == [ok |-> FALSE, err |-> e]

\* the messages of the errors the auth core builds or passes on
ErrSpawn == "io error: the process could not be spawned"
ErrUnsupportedMethod == "Unsupported authentication method"
ErrInternalNotImplemented == "Internal provider not implemented in this example"
ErrLdapNotImplemented == "LDAP provider not implemented yet"
ErrOAuthNotImplemented == "OAuth provider not implemented yet"
ErrNativeUnsupported == "Native authentication not supported on this platform"
ErrListGroups == "Failed to list groups"

\* HashMap::new
EmptyMap == [k \in {} |-> <<>>]

-----------------------------------------------------------------------------
(* The identity source: the accounts of the machine and the tools that list them *)

u_al == <<"a","l">>
u_ali == <<"a","l","i">>
u_bo == <<"b","o">>

\* the accounts and groups of the machine, in the order its tools list them
AllUsers == <<u_al, u_ali, u_bo>>

grp_dev == <<"d","e","v">>
grp_ops == <<"o","p","s">>
grp_rcp_app_x == <<"r","c","p","-","a","p","p","-","x">>

AllGroups == <<grp_wheel, grp_rcp_users, grp_dev, grp_ops, grp_rcp_app_x>>

\* the listed members of group g
Members(o, g) ==
    SelectSeq(AllUsers, LAMBDA u : u \in o.users /\ vec_contains(o.groups_of[u], g))

GroupExists(o, g) == Len(Members(o, g)) > 0

\* `id <username>`: only the exit status is read
cmd_id(o, u) == [success |-> u \in o.users, stdout |-> <<>>]

\* `getent group <group>`: "group:x:gid:member,member"
cmd_getent_group(o, g) ==
    IF GroupExists(o, g)
    THEN [success |-> TRUE,
          stdout |-> g \o <<":","x",":","1",":">> \o join_comma(Members(o, g)) \o str_newline]
    ELSE [success |-> FALSE, stdout |-> <<>>]

\* `groups <username>` of GNU coreutils: "username : group group"
cmd_groups_gnu(o, u) ==
    IF u \in o.users
    THEN [success |-> TRUE,
          stdout |-> u \o <<" ",":"," ">> \o join_space(o.groups_of[u]) \o str_newline]
    ELSE [success |-> FALSE, stdout |-> <<>>]

\* `groups <username>` of the BSDs: "group group"
cmd_groups_bsd(o, u) ==
    IF u \in o.users
    THEN [success |-> TRUE, stdout |-> join_space(o.groups_of[u]) \o str_newline]
    ELSE [success |-> FALSE, stdout |-> <<>>]

\* `dscl . -read /Users/<username>`: only the exit status is read here
cmd_dscl_read_user(o, u) == [success |-> u \in o.users, stdout |-> <<>>]

str_GroupMembership == <<"G","r","o","u","p","M","e","m","b","e","r","s","h","i","p",":"," ">>

\* `dscl . -read /Groups/<group> GroupMembership`: "GroupMembership: member member"
cmd_dscl_read_group(o, g) ==
    IF GroupExists(o, g)
    THEN [success |-> TRUE,
          stdout |-> str_GroupMembership \o join_space(Members(o, g)) \o str_newline]
    ELSE [success |-> FALSE, stdout |-> <<>>]

\* `dscl . -list /Groups GroupMembership`: one line "group member member" per group
cmd_dscl_list_groups(o) ==
    [success |-> TRUE,
     stdout |-> concat([i \in 1..Len(AllGroups) |->
                    IF GroupExists(o, AllGroups[i])
                    THEN AllGroups[i] \o str_space
                         \o join_space(Members(o, AllGroups[i])) \o str_newline
                    ELSE <<>>])]

str_LocalGroupMemberships ==
    <<"L","o","c","a","l"," ","G","r","o","u","p"," ",
      "M","e","m","b","e","r","s","h","i","p","s">>
str_GlobalGroupLine ==
    <<"G","l","o","b","a","l"," ","G","r","o","u","p"," ",
      "m","e","m","b","e","r","s","h","i","p","s"," ","*","N","o","n","e">>

\* `net user <username>`: "Local Group Memberships *Group *Group", then the
\* "Global Group memberships *None" line
cmd_net_user(o, u) ==
    IF u \in o.users
    THEN [success |-> TRUE,
          stdout |-> str_LocalGroupMemberships \o str_space
                     \o concat([i \in 1..Len(o.groups_of[u]) |->
                                   <<"*">> \o o.groups_of[u][i] \o str_space])
                     \o str_newline \o str_GlobalGroupLine \o str_newline]
    ELSE [success |-> FALSE, stdout |-> <<>>]

-----------------------------------------------------------------------------
(* The native providers: LinuxAuthProvider, MacOSAuthProvider,              *)
(* WindowsAuthProvider, UnixAuthProvider                                    *)

NativeVariants == {"linux", "macos", "windows", "unix"}

\* <Variant>AuthProvider::new
NativeNew(variant, ncfg) ==
    [variant |-> variant, config |-> ncfg,
     user_cache |-> EmptyMap, group_cache |-> EmptyMap,
     users |-> EmptyMap, credentials |-> EmptyMap, permissions |-> EmptyMap,
     initialized |-> FALSE]

\* what a provider call answers, with the identity-source queries it made
Answer(res, queries) == [res |-> res, queries |-> queries]

linux_is_member_of_group(o, username, group, spawn_ok) ==
    IF ~spawn_ok THEN Answer(Err(ErrSpawn), 1)
    ELSE LET output == cmd_getent_group(o, group)
         IN IF ~output.success THEN Answer(Ok(FALSE), 1)
            ELSE LET parts == split(output.stdout, ":")
                     members == IF Len(parts) >= 4 THEN parts[4] ELSE <<>>
                     ms == split(members, ",")
                 IN Answer(Ok(\E i \in 1..Len(ms) : trim(ms[i]) = username), 1)

macos_is_member_of_group(o, username, group, spawn_ok) ==
    IF ~spawn_ok THEN Answer(Err(ErrSpawn), 1)
    ELSE LET output == cmd_dscl_read_group(o, group)
         IN IF ~output.success THEN Answer(Ok(FALSE), 1)
            ELSE Answer(Ok(contains(output.stdout, username)), 1)

\* the text from "Local Group Memberships" up to the first "*"
windows_groups_text(stdout) ==
    LET idx == find(stdout, str_LocalGroupMemberships)
        remaining == SubSeq(stdout, idx, Len(stdout))
        star == find(remaining, <<"*">>)
        end_idx == IF star = 0 THEN Len(remaining) ELSE star - 1
    IN SubSeq(remaining, 1, end_idx)

windows_is_member_of_group(o, username, group, spawn_ok) ==
    IF ~spawn_ok THEN Answer(Err(ErrSpawn), 1)
    ELSE LET output == cmd_net_user(o, username)
         IN IF ~output.success THEN Answer(Ok(FALSE), 1)
            ELSE IF find(output.stdout, str_LocalGroupMemberships) # 0
            THEN Answer(Ok(contains(windows_groups_text(output.stdout), group)), 1)
            ELSE Answer(Ok(FALSE), 1)

unix_is_member_of_group(prov, o, username, group, spawn_ok) ==
    IF username \in DOMAIN prov.group_cache
    THEN Answer(Ok(vec_contains(prov.group_cache[username], group)), 0)
    ELSE IF ~spawn_ok THEN Answer(Err(ErrSpawn), 1)
    ELSE LET output == cmd_groups_bsd(o, username)
         IN IF ~output.success THEN Answer(Ok(FALSE), 1)
            ELSE LET gs == split_whitespace(output.stdout)
                 IN Answer(Ok(\E i \in 1..Len(gs) : gs[i] = group), 1)

is_member_of_group(prov, o, username, group, spawn_ok) ==
    CASE prov.variant = "linux" -> linux_is_member_of_group(o, username, group, spawn_ok)
      [] prov.variant = "macos" -> macos_is_member_of_group(o, username, group, spawn_ok)
      [] prov.variant = "windows" -> windows_is_member_of_group(o, username, group, spawn_ok)
      [] prov.variant = "unix" -> unix_is_member_of_group(prov, o, username, group, spawn_ok)

\* the account-existence query of each variant
cmd_user_exists(variant, o, username) ==
    CASE variant = "linux" -> cmd_id(o, username)
      [] variant = "macos" -> cmd_dscl_read_user(o, username)
      [] variant = "windows" -> cmd_net_user(o, username)
      [] variant = "unix" -> cmd_id(o, username)

validate_system_credentials(prov, o, username, password, spawn_ok) ==
    IF ~spawn_ok THEN Answer(Err(ErrSpawn), 1)
    ELSE Answer(Ok(cmd_user_exists(prov.variant, o, username).success), 1)

\* the mutant of native_validate_credentials: an unknown method is a silent false
native_validate_credentials_silent(prov, o, username, credentials, method, spawn_ok) ==
    CASE method = "psk" ->
            IF ~prov.config.allow_all_users /\ prov.config.require_group.some
            THEN is_member_of_group(prov, o, username, prov.config.require_group.val, spawn_ok)
            ELSE validate_system_credentials(prov, o, username, <<>>, spawn_ok)
      [] method = "password" ->
            validate_system_credentials(prov, o, username, credentials, spawn_ok)
      [] OTHER -> Answer(Ok(FALSE), 0)

\* <Variant>AuthProvider::validate_credentials
native_validate_credentials(prov, o, username, credentials, method, spawn_ok) ==
    CASE method = "psk" ->
            IF ~prov.config.allow_all_users /\ prov.config.require_group.some
            THEN is_member_of_group(prov, o, username, prov.config.require_group.val, spawn_ok)
            ELSE IF ~spawn_ok THEN Answer(Err(ErrSpawn), 1)
            ELSE Answer(Ok(cmd_user_exists(prov.variant, o, username).success), 1)
      [] method = "password" ->
            validate_system_credentials(prov, o, username, credentials, spawn_ok)
      [] method = "publickey" -> Answer(Ok(FALSE), 0)
      [] OTHER -> Answer(Err(ErrUnsupportedMethod), 0)

\* <Variant>AuthProvider::supports_auth_method: the same in the four variants
native_supports_auth_method(prov, method) == method \in {"psk", "password"}

ErrUserCreationUnsupported == "User creation not supported by native provider"
ErrUserUpdatesUnsupported == "User updates not supported by native provider"
ErrUserDeletionUnsupported == "User deletion not supported by native provider"

\* a mutant of native_create_user: the user is stored and the call succeeds
native_create_user_stores(prov, user) ==
    [ret |-> Ok("unit"),
     prov |-> [prov EXCEPT !.users = [k \in DOMAIN prov.users \cup {user.username} |->
                                         IF k = user.username THEN user ELSE prov.users[k]]]]

\* <Variant>AuthProvider::create_user, update_user, delete_user: &self, always Err
native_create_user(prov, user) ==
    [ret |-> Err(ErrUserCreationUnsupported), prov |-> prov]

native_update_user(prov, user) ==
    [ret |-> Err(ErrUserUpdatesUnsupported), prov |-> prov]

native_delete_user(prov, id) ==
    [ret |-> Err(ErrUserDeletionUnsupported), prov |-> prov]

\* <Variant>AuthProvider::supports_user_management
native_supports_user_management(prov) == FALSE

\* <Variant>AuthProvider::name
native_name(prov) ==
    CASE prov.variant = "linux" -> name_linux
      [] prov.variant = "macos" -> name_macos
      [] prov.variant = "windows" -> name_windows
      [] prov.variant = "unix" -> name_unix

\* <Variant>AuthProvider::initialize: clears both caches
native_initialize(prov) ==
    [prov EXCEPT !.user_cache = EmptyMap, !.group_cache = EmptyMap]

-----------------------------------------------------------------------------
(* MockAuthProvider *)

\* MockAuthProvider::new
MockNew ==
    [variant |-> "mock", config |-> None,
     user_cache |-> EmptyMap, group_cache |-> EmptyMap,
     users |-> EmptyMap, credentials |-> EmptyMap, permissions |-> EmptyMap,
     initialized |-> FALSE]

\* server::user::User, as far as the auth core reads it
User(username, role) == [username |-> username, role |-> role]

with_user(prov, user) ==
    [prov EXCEPT !.users = [k \in DOMAIN prov.users \cup {user.username} |->
                                IF k = user.username THEN user ELSE prov.users[k]]]

with_credential(prov, username, password) ==
    [prov EXCEPT !.credentials = [k \in DOMAIN prov.credentials \cup {username} |->
                                IF k = username THEN password ELSE prov.credentials[k]]]

with_permission(prov, username, permission) ==
    [prov EXCEPT !.permissions = [k \in DOMAIN prov.permissions \cup {username} |->
                                IF k = username
                                THEN (IF k \in DOMAIN prov.permissions
                                      THEN Append(prov.permissions[k], permission)
                                      ELSE <<permission>>)
                                ELSE prov.permissions[k]]]

\* a mutant of mock_validate_credentials: a stored credential is not compared
mock_validate_credentials_key_only(prov, username, credentials, method) ==
    CASE method = "password" -> Answer(Ok(username \in DOMAIN prov.credentials), 0)
      [] method = "psk" -> Answer(Ok(username \in DOMAIN prov.users), 0)
      [] OTHER -> Answer(Ok(FALSE), 0)

mock_validate_credentials(prov, username, credentials, method) ==
    CASE method = "password" ->
            IF username \in DOMAIN prov.credentials
            THEN Answer(Ok(prov.credentials[username] = credentials), 0)
            ELSE Answer(Ok(FALSE), 0)
      [] method = "psk" -> Answer(Ok(username \in DOMAIN prov.users), 0)
      [] OTHER -> Answer(Ok(FALSE), 0)

mock_initialize(prov) == [prov EXCEPT !.initialized = TRUE]

\* MockAuthProvider::create_user, update_user, delete_user: Ok(()), nothing stored
mock_create_user(prov, user) == [ret |-> Ok("unit"), prov |-> prov]

mock_update_user(prov, user) == [ret |-> Ok("unit"), prov |-> prov]

mock_delete_user(prov, id) == [ret |-> Ok("unit"), prov |-> prov]

\* MockAuthProvider::supports_user_management
mock_supports_user_management(prov) == TRUE

\* MockAuthProvider::supports_auth_method
mock_supports_auth_method(prov, method) == method \in {"password", "psk"}

-----------------------------------------------------------------------------
(* Group resolution and permission mapping of the native providers *)

str_rcp_app == <<"r","c","p","-","a","p","p","-">>
str_RCP_App == <<"R","C","P","-","A","p","p","-">>
grp_rcp_api_users == <<"r","c","p","-","a","p","i","-","u","s","e","r","s">>
grp_rcp_api_admins == <<"r","c","p","-","a","p","i","-","a","d","m","i","n","s">>
grp_RCP_API_Users == <<"R","C","P","-","A","P","I","-","U","s","e","r","s">>
grp_RCP_API_Admins == <<"R","C","P","-","A","P","I","-","A","d","m","i","n","s">>

\* LinuxAuthProvider::get_user_groups: "username : group group", the part after
\* the first colon
linux_get_user_groups(prov, o, username, spawn_ok) ==
    IF username \in DOMAIN prov.group_cache
    THEN Answer(Ok(prov.group_cache[username]), 0)
    ELSE IF ~spawn_ok THEN Answer(Err(ErrSpawn), 1)
    ELSE LET output == cmd_groups_gnu(o, username)
         IN IF ~output.success THEN Answer(Err(ErrListGroups), 1)
            ELSE LET parts == split(output.stdout, ":")
                 IN Answer(Ok(IF Len(parts) >= 2 THEN split_whitespace(parts[2])
                              ELSE <<>>), 1)

\* the groups whose line of `dscl -list` names the user among the members
RECURSIVE macos_groups_of_lines(_, _)
macos_groups_of_lines(ls, username) ==
    IF Len(ls) = 0 THEN <<>>
    ELSE LET parts == split_whitespace(ls[1])
             rest == macos_groups_of_lines(Tail(ls), username)
         IN IF Len(parts) > 1 /\ vec_contains(Tail(parts), username)
            THEN <<parts[1]>> \o rest
            ELSE rest

\* MacOSAuthProvider::get_user_groups
macos_get_user_groups(prov, o, username, spawn_ok) ==
    IF username \in DOMAIN prov.group_cache
    THEN Answer(Ok(prov.group_cache[username]), 0)
    ELSE IF ~spawn_ok THEN Answer(Err(ErrSpawn), 1)
    ELSE LET output == cmd_dscl_list_groups(o)
         IN IF ~output.success THEN Answer(Err(ErrListGroups), 1)
            ELSE Answer(Ok(macos_groups_of_lines(lines(output.stdout), username)), 1)

\* the whitespace-separated words of the lines, except the bare "*"
RECURSIVE windows_words_of_lines(_)
windows_words_of_lines(ls) ==
    IF Len(ls) = 0 THEN <<>>
    ELSE SelectSeq(split_whitespace(ls[1]), LAMBDA w : w # <<>> /\ w # <<"*">>)
         \o windows_words_of_lines(Tail(ls))

\* WindowsAuthProvider::get_user_groups: the lines after the first of the text
\* between "Local Group Memberships" and the first "*"
windows_get_user_groups(prov, o, username, spawn_ok) ==
    IF username \in DOMAIN prov.group_cache
    THEN Answer(Ok(prov.group_cache[username]), 0)
    ELSE IF ~spawn_ok THEN Answer(Err(ErrSpawn), 1)
    ELSE LET output == cmd_net_user(o, username)
         IN IF ~output.success THEN Answer(Err(ErrListGroups), 1)
            ELSE IF find(output.stdout, str_LocalGroupMemberships) # 0
            THEN Answer(Ok(windows_words_of_lines(
                              Tail(lines(windows_groups_text(output.stdout))))), 1)
            ELSE Answer(Ok(<<>>), 1)

\* UnixAuthProvider::get_user_groups: the cache it fills is a clone that is dropped
unix_get_user_groups(prov, o, username, spawn_ok) ==
    IF username \in DOMAIN prov.group_cache
    THEN Answer(Ok(prov.group_cache[username]), 0)
    ELSE IF ~spawn_ok THEN Answer(Err(ErrSpawn), 1)
    ELSE LET output == cmd_groups_bsd(o, username)
         IN IF ~output.success THEN Answer(Err(ErrListGroups), 1)
            ELSE LET parts == split(output.stdout, ":")
                     groups_str == IF Len(parts) > 1 THEN trim(parts[2])
                                   ELSE trim(output.stdout)
                 IN Answer(Ok(split_whitespace(groups_str)), 1)

get_user_groups(prov, o, username, spawn_ok) ==
    CASE prov.variant = "linux" -> linux_get_user_groups(prov, o, username, spawn_ok)
      [] prov.variant = "macos" -> macos_get_user_groups(prov, o, username, spawn_ok)
      [] prov.variant = "windows" -> windows_get_user_groups(prov, o, username, spawn_ok)
      [] prov.variant = "unix" -> unix_get_user_groups(prov, o, username, spawn_ok)

\* the permissions one group adds in the loop of map_permissions
group_permissions(group, app_prefix, api_users, api_admins, permission_mappings) ==
    (IF starts_with(group, app_prefix)
     THEN <<str_app_colon \o trim_start_matches(group, app_prefix)>> ELSE <<>>)
    \o (IF group = api_users THEN <<perm_api_read>> ELSE <<>>)
    \o (IF group = api_admins THEN <<perm_api_write>> ELSE <<>>)
    \o (IF group \in DOMAIN permission_mappings THEN permission_mappings[group] ELSE <<>>)

RECURSIVE groups_permissions(_, _, _, _, _)
groups_permissions(groups, app_prefix, api_users, api_admins, permission_mappings) ==
    IF Len(groups) = 0 THEN <<>>
    ELSE group_permissions(groups[1], app_prefix, api_users, api_admins, permission_mappings)
         \o groups_permissions(Tail(groups), app_prefix, api_users, api_admins,
                               permission_mappings)

\* is_admin of map_permissions: some group of the list is an admin group
is_admin(groups, admin_groups) ==
    \E i \in 1..Len(groups) : vec_contains(admin_groups, groups[i])

\* LinuxAuthProvider::map_permissions and MacOSAuthProvider::map_permissions
linux_map_permissions(cfg, groups) ==
    (IF is_admin(groups, cfg.admin_groups) THEN <<perm_admin_all>> ELSE <<>>)
    \o <<perm_connect_all>>
    \o groups_permissions(groups, str_rcp_app, grp_rcp_api_users, grp_rcp_api_admins,
                          cfg.permission_mappings)

\* WindowsAuthProvider::map_permissions
windows_map_permissions(cfg, groups) ==
    (IF is_admin(groups, cfg.admin_groups) THEN <<perm_admin_all>> ELSE <<>>)
    \o <<perm_connect_all>>
    \o groups_permissions(groups, str_RCP_App, grp_RCP_API_Users, grp_RCP_API_Admins,
                          cfg.permission_mappings)

\* UnixAuthProvider::map_permissions
unix_map_permissions(cfg, groups) ==
    IF is_admin(groups, cfg.admin_groups)
    THEN <<perm_admin_all, perm_connect_all, perm_app_all>>
    ELSE <<perm_connect_all>>
         \o groups_permissions(groups, str_rcp_app, grp_rcp_api_users, grp_rcp_api_admins,
                               cfg.permission_mappings)

map_permissions(prov, groups) ==
    CASE prov.variant = "linux" -> linux_map_permissions(prov.config, groups)
      [] prov.variant = "macos" -> linux_map_permissions(prov.config, groups)
      [] prov.variant = "windows" -> windows_map_permissions(prov.config, groups)
      [] prov.variant = "unix" -> unix_map_permissions(prov.config, groups)

\* the loop of has_permission: the first pattern that decides
RECURSIVE permission_granted(_, _)
permission_granted(permissions, permission) ==
    IF Len(permissions) = 0 THEN FALSE
    ELSE LET perm == permissions[1]
         IN IF ends_with(perm, str_colon_star)
               /\ starts_with(permission, trim_end_matches(perm, str_colon_star))
            THEN TRUE
            ELSE IF perm = permission THEN TRUE
            ELSE permission_granted(Tail(permissions), permission)

\* <Variant>AuthProvider::has_permission
native_has_permission(prov, o, user, permission, spawn_ok) ==
    LET groups == get_user_groups(prov, o, user.username, spawn_ok)
    IN IF ~groups.res.ok THEN groups
       ELSE Answer(Ok(permission_granted(map_permissions(prov, groups.res.val), permission)),
                   groups.queries)

\* <Variant>AuthProvider::get_permissions
native_get_permissions(prov, o, user, spawn_ok) ==
    LET groups == get_user_groups(prov, o, user.username, spawn_ok)
    IN IF ~groups.res.ok THEN groups
       ELSE Answer(Ok(map_permissions(prov, groups.res.val)), groups.queries)

\* `getent group` and the file /etc/group: one line "group:x:gid:member,member"
\* for each group
cmd_getent_group_all(o) ==
    [success |-> TRUE,
     stdout |-> concat([i \in 1..Len(AllGroups) |->
                    AllGroups[i] \o <<":","x",":","1",":">>
                    \o join_comma(Members(o, AllGroups[i])) \o str_newline])]

\* `id -G -n <username>`: "group group"
cmd_id_G_n(o, u) ==
    IF u \in o.users
    THEN [success |-> TRUE, stdout |-> join_space(o.groups_of[u]) \o str_newline]
    ELSE [success |-> FALSE, stdout |-> <<>>]

\* the groups whose line "group:x:gid:members" names the user among the members
RECURSIVE groups_of_group_lines(_, _)
groups_of_group_lines(ls, username) ==
    IF Len(ls) = 0 THEN <<>>
    ELSE LET group_parts == split(ls[1], ":")
             rest == groups_of_group_lines(Tail(ls), username)
         IN IF Len(group_parts) >= 4
               /\ \E i \in 1..Len(split(group_parts[4], ",")) :
                      trim(split(group_parts[4], ",")[i]) = username
            THEN <<group_parts[1]>> \o rest
            ELSE rest

\* HashMap::insert
insert(map, k, v) == [x \in DOMAIN map \cup {k} |-> IF x = k THEN v ELSE map[x]]

\* what a cached lookup answers: the result, the cache as the call leaves it, the
\* identity-source queries made, and whether the cache answered
Lookup(res, cache, queries, hit) ==
    [res |-> res, cache |-> cache, queries |-> queries, hit |-> hit]

\* improved_native::get_linux_user_groups
get_linux_user_groups(username, cache, o, spawn_ok) ==
    IF username \in DOMAIN cache
    THEN Lookup(Ok(cache[username]), cache, 0, TRUE)
    ELSE IF ~spawn_ok THEN Lookup(Err(ErrSpawn), cache, 1, FALSE)
    ELSE LET output == cmd_groups_gnu(o, username)
         IN IF ~output.success THEN Lookup(Err(ErrListGroups), cache, 1, FALSE)
            ELSE LET groups_str == trim(output.stdout)
                     parts == split(groups_str, ":")
                     groups == IF Len(parts) > 1 THEN split_whitespace(parts[2])
                               ELSE split_whitespace(groups_str)
                 IN Lookup(Ok(groups), insert(cache, username, groups), 1, FALSE)

\* improved_native::get_unix_user_groups: `groups`, then `getent group`, then
\* `id -G -n`, then /etc/group, each tried while the list is empty; the list is
\* cached and returned whatever failed
get_unix_user_groups(username, cache, o, spawn_ok, etc_group_ok) ==
    IF username \in DOMAIN cache
    THEN Lookup(Ok(cache[username]), cache, 0, TRUE)
    ELSE LET output == cmd_groups_bsd(o, username)
             g1 == IF spawn_ok /\ output.success
                   THEN LET parts == split(output.stdout, ":")
                        IN split_whitespace(IF Len(parts) > 1 THEN trim(parts[2])
                                            ELSE trim(output.stdout))
                   ELSE <<>>
             g2 == IF g1 # <<>> THEN g1
                   ELSE IF spawn_ok
                   THEN groups_of_group_lines(lines(cmd_getent_group_all(o).stdout), username)
                   ELSE <<>>
             id_output == cmd_id_G_n(o, username)
             g3 == IF g2 # <<>> THEN g2
                   ELSE IF spawn_ok /\ id_output.success
                   THEN split_whitespace(trim(id_output.stdout))
                   ELSE <<>>
             g4 == IF g3 # <<>> THEN g3
                   ELSE IF etc_group_ok
                   THEN groups_of_group_lines(lines(cmd_getent_group_all(o).stdout), username)
                   ELSE <<>>
             queries == 1 + (IF g1 = <<>> THEN 1 ELSE 0) + (IF g2 = <<>> THEN 1 ELSE 0)
                          + (IF g3 = <<>> THEN 1 ELSE 0)
         IN Lookup(Ok(g4), insert(cache, username, g4), queries, FALSE)

\* <Variant>AuthProvider::get_user_by_username: the user cache, the existence
\* query, then the groups, which decide the role
native_get_user_by_username(prov, o, username, spawn_ok) ==
    IF username \in DOMAIN prov.user_cache
    THEN Answer(Ok(Some(prov.user_cache[username])), 0)
    ELSE IF ~spawn_ok THEN Answer(Err(ErrSpawn), 1)
    ELSE IF ~cmd_user_exists(prov.variant, o, username).success THEN Answer(Ok(None), 1)
    ELSE LET groups == get_user_groups(prov, o, username, spawn_ok)
         IN IF ~groups.res.ok THEN Answer(groups.res, 1 + groups.queries)
            ELSE Answer(Ok(Some(User(username,
                                     IF is_admin(groups.res.val, prov.config.admin_groups)
                                     THEN "Admin" ELSE "User"))),
                        1 + groups.queries)

\* MockAuthProvider::get_user_by_username
mock_get_user_by_username(prov, username) ==
    IF username \in DOMAIN prov.users
    THEN Answer(Ok(Some(prov.users[username])), 0)
    ELSE Answer(Ok(None), 0)

\* the custom-mapping loop of map_permissions_common: each new permission once
RECURSIVE apply_mappings(_, _, _)
apply_mappings(permissions, groups, permission_mappings) ==
    IF Len(groups) = 0 THEN permissions
    ELSE LET group_permissions_ ==
                 IF groups[1] \in DOMAIN permission_mappings
                 THEN permission_mappings[groups[1]] ELSE <<>>
             add[i \in 0..Len(group_permissions_)] ==
                 IF i = 0 THEN permissions
                 ELSE IF vec_contains(add[i - 1], group_permissions_[i]) THEN add[i - 1]
                 ELSE Append(add[i - 1], group_permissions_[i])
         IN apply_mappings(add[Len(group_permissions_)], Tail(groups), permission_mappings)

\* a mutant of map_permissions_common: the admin set is extended by the mappings
map_permissions_common_no_return(groups, admin_groups, require_group, permission_mappings) ==
    LET start == IF is_admin(groups, admin_groups)
                 THEN <<perm_admin_all, perm_connect_all, perm_app_all>> ELSE <<>>
        permissions == apply_mappings(start, groups, permission_mappings)
    IN IF permissions = <<>> /\ require_group.some /\ vec_contains(groups, require_group.val)
       THEN <<perm_connect_basic>>
       ELSE permissions

\* a mutant of map_permissions_common: connect:basic for whoever has nothing
map_permissions_common_ungated(groups, admin_groups, require_group, permission_mappings) ==
    IF is_admin(groups, admin_groups)
    THEN <<perm_admin_all, perm_connect_all, perm_app_all>>
    ELSE LET permissions == apply_mappings(<<>>, groups, permission_mappings)
         IN IF permissions = <<>> THEN <<perm_connect_basic>> ELSE permissions

\* a mutant of map_permissions_common: the first group with a mapping decides
map_permissions_common_first_match(groups, admin_groups, require_group, permission_mappings) ==
    IF is_admin(groups, admin_groups)
    THEN <<perm_admin_all, perm_connect_all, perm_app_all>>
    ELSE LET mapped == SelectSeq(groups, LAMBDA g : g \in DOMAIN permission_mappings)
             permissions == IF Len(mapped) = 0 THEN <<>>
                            ELSE apply_mappings(<<>>, <<mapped[1]>>, permission_mappings)
         IN IF permissions = <<>> /\ require_group.some
               /\ vec_contains(groups, require_group.val)
            THEN <<perm_connect_basic>>
            ELSE permissions

\* improved_native::map_permissions_common
map_permissions_common(groups, admin_groups, require_group, permission_mappings) ==
    IF is_admin(groups, admin_groups)
    THEN <<perm_admin_all, perm_connect_all, perm_app_all>>
    ELSE LET permissions == apply_mappings(<<>>, groups, permission_mappings)
         IN IF permissions = <<>> /\ require_group.some
               /\ vec_contains(groups, require_group.val)
            THEN <<perm_connect_basic>>
            ELSE permissions

\* a mutant of mock_has_permission: the role of the user is not read
mock_has_permission_grants_only(prov, user, permission) ==
    IF /\ user.username \in DOMAIN prov.permissions
       /\ \/ vec_contains(prov.permissions[user.username], permission)
          \/ \E i \in 1..Len(prov.permissions[user.username]) :
                LET perm == prov.permissions[user.username][i]
                IN /\ ends_with(perm, str_colon_star)
                   /\ starts_with(permission, trim_end_matches(perm, str_colon_star))
    THEN Answer(Ok(TRUE), 0)
    ELSE Answer(Ok(FALSE), 0)

\* MockAuthProvider::has_permission
mock_has_permission(prov, user, permission) ==
    IF /\ user.username \in DOMAIN prov.permissions
       /\ \/ vec_contains(prov.permissions[user.username], permission)
          \/ \E i \in 1..Len(prov.permissions[user.username]) :
                LET perm == prov.permissions[user.username][i]
                IN /\ ends_with(perm, str_colon_star)
                   /\ starts_with(permission, trim_end_matches(perm, str_colon_star))
    THEN Answer(Ok(TRUE), 0)
    ELSE IF user.role = "Admin" THEN Answer(Ok(TRUE), 0)
    ELSE Answer(Ok(FALSE), 0)

\* MockAuthProvider::get_permissions
mock_get_permissions(prov, user) ==
    IF user.username \in DOMAIN prov.permissions
    THEN Answer(Ok(prov.permissions[user.username]), 0)
    ELSE Answer(Ok(<<>>), 0)

-----------------------------------------------------------------------------
(* dyn AuthProvider: the calls AuthManager makes through the trait object *)

provider_validate_credentials(prov, o, username, credentials, method, spawn_ok) ==
    IF prov.variant = "mock"
    THEN mock_validate_credentials(prov, username, credentials, method)
    ELSE native_validate_credentials(prov, o, username, credentials, method, spawn_ok)

provider_name(prov) ==
    IF prov.variant = "mock" THEN name_mock ELSE native_name(prov)

provider_has_permission(prov, o, user, permission, spawn_ok) ==
    IF prov.variant = "mock"
    THEN mock_has_permission(prov, user, permission)
    ELSE native_has_permission(prov, o, user, permission, spawn_ok)

provider_get_permissions(prov, o, user, spawn_ok) ==
    IF prov.variant = "mock"
    THEN mock_get_permissions(prov, user)
    ELSE native_get_permissions(prov, o, user, spawn_ok)

provider_create_user(prov, user) ==
    IF prov.variant = "mock" THEN mock_create_user(prov, user)
    ELSE native_create_user(prov, user)

provider_update_user(prov, user) ==
    IF prov.variant = "mock" THEN mock_update_user(prov, user)
    ELSE native_update_user(prov, user)

provider_delete_user(prov, id) ==
    IF prov.variant = "mock" THEN mock_delete_user(prov, id)
    ELSE native_delete_user(prov, id)

provider_supports_user_management(prov) ==
    IF prov.variant = "mock" THEN mock_supports_user_management(prov)
    ELSE native_supports_user_management(prov)

provider_get_user_by_username(prov, o, username, spawn_ok) ==
    IF prov.variant = "mock"
    THEN mock_get_user_by_username(prov, username)
    ELSE native_get_user_by_username(prov, o, username, spawn_ok)

provider_supports_auth_method(prov, method) ==
    IF prov.variant = "mock"
    THEN mock_supports_auth_method(prov, method)
    ELSE native_supports_auth_method(prov, method)

\* a mutant of provider_initialize_queries: initialize probes the identity source
provider_initialize_probes(prov) == IF prov.variant = "mock" THEN 0 ELSE 1

\* the identity-source queries of a provider's initialize: it runs no command
provider_initialize_queries(prov) == 0

\* every variant's initialize returns Ok(())
provider_initialize(prov) ==
    IF prov.variant = "mock" THEN mock_initialize(prov) ELSE native_initialize(prov)

ErrSetup == "setup failed"

\* an AuthProvider implemented outside the crate and installed in the manager's
\* provider slot, as the tests install their mock
ExternalNew == [variant |-> "external", initialized |-> FALSE]

\* AuthProvider::initialize as the trait declares it, Result<()>: the providers of
\* the crate return Ok(()); another implementation may fail and leave itself as
\* it was
provider_initialize_outcomes(prov) ==
    IF prov.variant = "external"
    THEN {[ret |-> Ok("unit"), prov |-> [prov EXCEPT !.initialized = TRUE]],
          [ret |-> Err(ErrSetup), prov |-> prov]}
    ELSE {[ret |-> Ok("unit"), prov |-> provider_initialize(prov)]}

-----------------------------------------------------------------------------
(* AuthProviderFactory *)

ProviderTypes == {"Internal", "Native", "Ldap", "OAuth", "Mock"}

\* the builds of the daemon: the four targets with a native provider, and any other
Platforms == NativeVariants \cup {"other"}

\* a mutant of create_provider: the Internal kind is served by a mock
create_provider_internal_as_mock(cfg, plat) ==
    CASE cfg.provider = "Native" ->
            IF plat \in NativeVariants
            THEN Ok(NativeNew(plat, cfg.native))
            ELSE Err(ErrNativeUnsupported)
      [] cfg.provider = "Ldap" -> Err(ErrLdapNotImplemented)
      [] cfg.provider = "OAuth" -> Err(ErrOAuthNotImplemented)
      [] OTHER -> Ok(MockNew)

\* AuthProviderFactory::create_provider, for the build `plat`
create_provider(cfg, plat) ==
    CASE cfg.provider = "Internal" -> Err(ErrInternalNotImplemented)
      [] cfg.provider = "Native" ->
            IF plat \in NativeVariants
            THEN Ok(NativeNew(plat, cfg.native))
            ELSE Err(ErrNativeUnsupported)
      [] cfg.provider = "Ldap" -> Err(ErrLdapNotImplemented)
      [] cfg.provider = "OAuth" -> Err(ErrOAuthNotImplemented)
      [] cfg.provider = "Mock" -> Ok(MockNew)

\* default_admin_groups
default_admin_groups == <<grp_administrators, grp_wheel, grp_sudo, grp_admin>>

-----------------------------------------------------------------------------
(* The async runtime *)

\* a manager called from one task at a time: nothing of the runtime is tracked
NoRuntime == [workers |-> 0]

Tasks == 1..MaxTasks

\* no task holds the write side
NoTask == 0

\* the worker threads of the runtime the manager is called on: the daemon and the
\* tests build a current-thread runtime, #[tokio::main] a multi-thread one
WorkerCounts == {1, 2}

\* the operations of AuthManager that lock the provider slot
ReadOps == {"validate_credentials", "get_user_by_username", "has_permission",
            "get_permissions"}

\* a worker thread is free to poll a task: a task inside a blocking
\* Command::output() keeps the thread it runs on
FreeWorker(r) == Cardinality({t \in Tasks : r.pc[t] = "querying"}) < r.workers

\* a mutant of can_read: the slot is locked exclusively, as by a Mutex
can_read_exclusive(r, t) == r.writer = NoTask /\ r.readers = {}

\* tokio::sync::RwLock, read side: granted unless a writer holds the lock
can_read(r, t) == r.writer = NoTask

\* tokio::sync::RwLock, write side: granted when nobody holds the lock
can_write(r, t) == r.writer = NoTask /\ r.readers = {}

\* the guard of task t is dropped
release(r, t) ==
    [r EXCEPT !.writer = IF r.writer = t THEN NoTask ELSE r.writer,
              !.readers = r.readers \ {t},
              !.pc[t] = "idle", !.op[t] = "none"]

-----------------------------------------------------------------------------
(* The parts of the daemon outside the auth core, where a specification does    *)
(* not run them                                                                *)

\* no Service was constructed
NoChannel == [capacity |-> 0]

\* no UserManager was constructed
NoStore == [users |-> <<>>]

\* no Server was constructed
NoServer == [running |-> FALSE]

-----------------------------------------------------------------------------
(* AuthManager *)

\* a mutant of manager_fallback: a fallback provider that cannot be built is an error
manager_fallback_propagates(cfg, plat, o, username, credentials, method, spawn_ok) ==
    LET fallback_config == [cfg EXCEPT !.provider = "Internal"]
        created == create_provider(fallback_config, plat)
    IN IF created.ok
       THEN LET second == provider_validate_credentials(
                              created.val, o, username, credentials, method, spawn_ok)
            IN [ret |-> second.res, fallback_built |-> 1, fallback |-> Some(second.res)]
       ELSE [ret |-> Err(created.err), fallback_built |-> 1, fallback |-> None]

\* a mutant of manager_fallback: a fallback provider that cannot be built lets the
\* caller in
manager_fallback_open(cfg, plat, o, username, credentials, method, spawn_ok) ==
    LET fallback_config == [cfg EXCEPT !.provider = "Internal"]
        created == create_provider(fallback_config, plat)
    IN IF created.ok
       THEN LET second == provider_validate_credentials(
                              created.val, o, username, credentials, method, spawn_ok)
            IN [ret |-> IF second.res.ok THEN second.res ELSE Ok(TRUE),
                fallback_built |-> 1, fallback |-> Some(second.res)]
       ELSE [ret |-> Ok(TRUE), fallback_built |-> 1, fallback |-> None]

\* the fallback arm of validate_credentials: a fresh Internal provider, asked once
manager_fallback(cfg, plat, o, username, credentials, method, spawn_ok) ==
    LET fallback_config == [cfg EXCEPT !.provider = "Internal"]
        created == create_provider(fallback_config, plat)
    IN IF created.ok
       THEN LET second == provider_validate_credentials(
                              created.val, o, username, credentials, method, spawn_ok)
            IN [ret |-> IF second.res.ok THEN second.res ELSE Ok(FALSE),
                fallback_built |-> 1, fallback |-> Some(second.res)]
       ELSE [ret |-> Ok(FALSE), fallback_built |-> 1, fallback |-> None]

\* a mutant of manager_validate_credentials: the fallback_to_internal flag is not read
manager_validate_credentials_always_fallback(cfg, plat, prov, o, username, credentials, method, spawn_ok) ==
    LET first == provider_validate_credentials(prov, o, username, credentials, method, spawn_ok)
    IN IF first.res.ok
       THEN [ret |-> first.res, active |-> first.res, queries |-> first.queries,
             fallback_built |-> 0, fallback |-> None]
       ELSE IF contains(provider_name(prov), str_native)
       THEN LET fb == manager_fallback(cfg, plat, o, username, credentials, method, spawn_ok)
            IN [ret |-> fb.ret, active |-> first.res, queries |-> first.queries,
                fallback_built |-> fb.fallback_built, fallback |-> fb.fallback]
       ELSE [ret |-> first.res, active |-> first.res, queries |-> first.queries,
             fallback_built |-> 0, fallback |-> None]

\* a mutant of manager_validate_credentials: a clean false of the active provider
\* is retried on the fallback provider as an error is
manager_validate_credentials_retry_denied(cfg, plat, prov, o, username, credentials, method, spawn_ok) ==
    LET first == provider_validate_credentials(prov, o, username, credentials, method, spawn_ok)
    IN IF first.res = Ok(TRUE)
       THEN [ret |-> first.res, active |-> first.res, queries |-> first.queries,
             fallback_built |-> 0, fallback |-> None]
       ELSE IF cfg.fallback_to_internal /\ contains(provider_name(prov), str_native)
       THEN LET fb == manager_fallback(cfg, plat, o, username, credentials, method, spawn_ok)
            IN [ret |-> fb.ret, active |-> first.res, queries |-> first.queries,
                fallback_built |-> fb.fallback_built, fallback |-> fb.fallback]
       ELSE [ret |-> first.res, active |-> first.res, queries |-> first.queries,
             fallback_built |-> 0, fallback |-> None]

\* AuthManager::validate_credentials: the result, with what was asked on the way
manager_validate_credentials(cfg, plat, prov, o, username, credentials, method, spawn_ok) ==
    LET first == provider_validate_credentials(prov, o, username, credentials, method, spawn_ok)
    IN IF first.res.ok
       THEN [ret |-> first.res, active |-> first.res, queries |-> first.queries,
             fallback_built |-> 0, fallback |-> None]
       ELSE IF cfg.fallback_to_internal /\ contains(provider_name(prov), str_native)
       THEN LET fb == manager_fallback(cfg, plat, o, username, credentials, method, spawn_ok)
            IN [ret |-> fb.ret, active |-> first.res, queries |-> first.queries,
                fallback_built |-> fb.fallback_built, fallback |-> fb.fallback]
       ELSE [ret |-> first.res, active |-> first.res, queries |-> first.queries,
             fallback_built |-> 0, fallback |-> None]

\* a mutant of manager_has_permission: a provider error is answered by the fallback
\* arm of validate_credentials
manager_has_permission_with_fallback(cfg, plat, prov, o, user, permission, spawn_ok) ==
    LET a == provider_has_permission(prov, o, user, permission, spawn_ok)
    IN IF ~a.res.ok /\ cfg.fallback_to_internal /\ contains(provider_name(prov), str_native)
       THEN [ret |-> Ok(FALSE), active |-> a.res, queries |-> a.queries, fallback_built |-> 1]
       ELSE [ret |-> a.res, active |-> a.res, queries |-> a.queries, fallback_built |-> 0]

\* AuthManager::has_permission: the active provider's answer as it is
manager_has_permission(cfg, plat, prov, o, user, permission, spawn_ok) ==
    LET a == provider_has_permission(prov, o, user, permission, spawn_ok)
    IN [ret |-> a.res, active |-> a.res, queries |-> a.queries, fallback_built |-> 0]

\* AuthManager::get_permissions: the active provider's answer as it is
manager_get_permissions(cfg, plat, prov, o, user, spawn_ok) ==
    LET a == provider_get_permissions(prov, o, user, spawn_ok)
    IN [ret |-> a.res, active |-> a.res, queries |-> a.queries, fallback_built |-> 0]

\* AuthManager::new: the factory's error, or a manager that is not initialized
manager_new(cfg, plat) ==
    LET created == create_provider(cfg, plat)
    IN IF created.ok
       THEN Ok([config |-> cfg, provider |-> created.val, initialized |-> FALSE])
       ELSE Err(created.err)

-----------------------------------------------------------------------------
(* The inputs of the manager specification *)

c_good == <<"p","w">>
c_wrong == <<"n","o">>

Usernames == {u_al, u_ali, u_bo}
Credentials == {c_good, c_wrong}
Methods == {"psk", "password", "publickey", "kerberos"}

\* the mock the manager tests install: one user with a password
TestMock == with_credential(with_user(MockNew, User(u_al, "User")), u_al, c_good)

\* NativeAuthConfig values: the access gate open or closed, with or without a group
ManagerNativeConfigs ==
    {[allow_all_users |-> a, require_group |-> g, permission_mapping |-> TRUE,
      admin_groups |-> default_admin_groups, permission_mappings |-> EmptyMap] :
        a \in BOOLEAN, g \in {None, Some(grp_rcp_users)}}

\* machines where ali has an account and al may have one, each in rcp-users or in
\* no group; bo has no account on any of them
ManagerOsStates ==
    UNION {{[users |-> us, groups_of |-> f] : f \in [us -> {<<>>, <<grp_rcp_users>>}]} :
              us \in {{u_ali}, {u_al, u_ali}}}

\* NativeAuthConfig::default
DefaultNativeConfig ==
    [allow_all_users |-> FALSE, require_group |-> Some(grp_rcp_users),
     permission_mapping |-> TRUE, admin_groups |-> default_admin_groups,
     permission_mappings |-> EmptyMap]

DefaultOs == [users |-> {u_al, u_ali},
              groups_of |-> [u \in {u_al, u_ali} |->
                                IF u = u_al THEN <<grp_rcp_users>> ELSE <<>>]]

\* AuthManager::new succeeded: the factory built the active provider. A Mock does
\* not read the native configuration or the machine, so those vary for Native only.
ManagerInit ==
    \E plat \in Platforms, kind \in ProviderTypes, fb \in BOOLEAN,
       ncfg \in ManagerNativeConfigs, o \in ManagerOsStates, installed \in BOOLEAN :
        LET cfg == [provider |-> kind, fallback_to_internal |-> fb, native |-> ncfg]
            created == create_provider(cfg, plat)
        IN /\ created.ok
           /\ installed => kind = "Mock"
           /\ kind = "Mock" => ncfg = DefaultNativeConfig /\ o = DefaultOs
           /\ platform = plat
           /\ config = cfg
           /\ provider = IF installed THEN TestMock ELSE created.val
           /\ initialized = FALSE
           /\ os = o
           /\ initCalls = 0
           /\ request = None
           /\ shutdown = NoChannel
           /\ store = NoStore
           /\ server = NoServer
           /\ rt = NoRuntime
           /\ call = [op |-> "new"]

\* a mutant of Initialize: no early return when the manager is initialized already
InitializeAgain ==
    /\ provider' = provider_initialize(provider)
    /\ initialized' = TRUE
    /\ initCalls' = initCalls + 1
    /\ call' = [op |-> "initialize", was_initialized |-> initialized, ret |-> Ok("unit")]
    /\ UNCHANGED <<platform, config, os, request, rt, shutdown, store, server>>

\* a mutant of Initialize: the flag is set before the provider's result is read
InitializeMarksFirst ==
    /\ IF initialized
       THEN /\ UNCHANGED <<provider, initialized, initCalls>>
            /\ call' = [op |-> "initialize", was_initialized |-> initialized,
                        ret |-> Ok("unit")]
       ELSE /\ initCalls < MaxInitCalls
            /\ \E r \in provider_initialize_outcomes(provider) :
                  /\ provider' = r.prov
                  /\ initialized' = TRUE
                  /\ initCalls' = initCalls + 1
                  /\ call' = [op |-> "initialize", was_initialized |-> initialized,
                              ret |-> r.ret]
    /\ UNCHANGED <<platform, config, os, request, rt, shutdown, store, server>>

\* AuthManager::initialize; the call records the flag as it found it
Initialize ==
    /\ IF initialized
       THEN /\ UNCHANGED <<provider, initialized, initCalls>>
            /\ call' = [op |-> "initialize", was_initialized |-> initialized,
                        ret |-> Ok("unit")]
       ELSE /\ initCalls < MaxInitCalls
            /\ \E r \in provider_initialize_outcomes(provider) :
                  /\ provider' = r.prov
                  /\ initialized' = r.ret.ok
                  /\ initCalls' = initCalls + 1
                  /\ call' = [op |-> "initialize", was_initialized |-> initialized,
                              ret |-> r.ret]
    /\ UNCHANGED <<platform, config, os, request, rt, shutdown, store, server>>

\* a mutant of ValidateCredentials: the fallback arm rewrites the manager's own
\* config instead of a clone of it
ValidateCredentialsInPlace ==
    \E username \in Usernames, credentials \in Credentials, method \in Methods,
       spawn_ok \in BOOLEAN :
        LET r == manager_validate_credentials(config, platform, provider, os,
                                              username, credentials, method, spawn_ok)
        IN /\ call' = [op |-> "validate_credentials", username |-> username,
                       credentials |-> credentials, method |-> method,
                       spawn_ok |-> spawn_ok, ret |-> r.ret, active |-> r.active,
                       queries |-> r.queries, fallback_built |-> r.fallback_built,
                       fallback |-> r.fallback]
           /\ config' = IF r.fallback_built = 1
                        THEN [config EXCEPT !.provider = "Internal"]
                        ELSE config
           /\ UNCHANGED <<platform, provider, initialized, os, initCalls, request, rt, shutdown, store, server>>

\* AuthManager::validate_credentials
ValidateCredentials ==
    \E username \in Usernames, credentials \in Credentials, method \in Methods,
       spawn_ok \in BOOLEAN :
        LET r == manager_validate_credentials(config, platform, provider, os,
                                              username, credentials, method, spawn_ok)
        IN /\ call' = [op |-> "validate_credentials", username |-> username,
                       credentials |-> credentials, method |-> method,
                       spawn_ok |-> spawn_ok, ret |-> r.ret, active |-> r.active,
                       queries |-> r.queries, fallback_built |-> r.fallback_built,
                       fallback |-> r.fallback]
           /\ UNCHANGED <<platform, config, provider, initialized, os, initCalls, request, rt, shutdown, store, server>>

Init == ManagerInit

Next == Initialize \/ ValidateCredentials

Spec == Init /\ [][Next]_vars

-----------------------------------------------------------------------------
(* Claims about AuthManager, under Spec *)

IsValidate == call.op = "validate_credentials"

ActiveIsNative == contains(provider_name(provider), str_native)

\* what the active provider answers to the arguments of the last call
ActiveAnswer ==
    provider_validate_credentials(provider, os, call.username, call.credentials,
                                  call.method, call.spawn_ok).res

\* C1: with fallback_to_internal set and an active provider whose name contains
\* "native", an error of the active provider's validate_credentials makes the
\* manager return Ok(false), or Ok(true) when the fallback provider accepted the
\* credential, and never Err
C1_FallbackNeverErr ==
    (IsValidate /\ config.fallback_to_internal /\ ActiveIsNative /\ ~ActiveAnswer.ok)
        => /\ call.ret.ok
           /\ \/ call.ret = Ok(FALSE)
              \/ call.ret = Ok(TRUE) /\ call.fallback = Some(Ok(TRUE))

\* the active native provider failed, the fallback provider could not be built, and
\* the caller was denied
C1_Witness ==
    /\ IsValidate /\ config.fallback_to_internal /\ ActiveIsNative
    /\ ActiveAnswer = Err(ErrSpawn)
    /\ call.fallback_built = 1 /\ call.fallback = None
    /\ call.ret = Ok(FALSE)

\* C2: the manager returns Ok(true) only if the active provider returned Ok(true)
\* for the same arguments, or the active provider failed and the fallback provider
\* returned Ok(true)
C2_TrueOnlyFromProvider ==
    (IsValidate /\ call.ret = Ok(TRUE))
        => \/ ActiveAnswer = Ok(TRUE)
           \/ ~ActiveAnswer.ok /\ call.fallback = Some(Ok(TRUE))

\* a call the manager granted because the active provider answered Ok(true)
C2_Witness ==
    /\ IsValidate
    /\ call.ret = Ok(TRUE)
    /\ ActiveAnswer = Ok(TRUE)

\* C3: when the active provider fails and fallback_to_internal is false or the
\* provider's name does not contain "native", the manager returns that error and
\* builds no fallback provider
C3_ErrorPropagates ==
    (IsValidate /\ ~ActiveAnswer.ok /\ (~config.fallback_to_internal \/ ~ActiveIsNative))
        => /\ call.ret = ActiveAnswer
           /\ call.fallback_built = 0

\* a native provider failed with fallback off, and the caller got its error
C3_Witness ==
    /\ IsValidate /\ ~config.fallback_to_internal
    /\ ActiveAnswer = Err(ErrSpawn)
    /\ call.ret = Err(ErrSpawn)

\* C4: every initialize() call returns Ok and leaves the manager initialized with
\* the provider's initialize() run exactly once; a call on an initialized manager
\* changes nothing
C4_InitializeIdempotent ==
    [][Initialize =>
        /\ call'.ret = Ok("unit")
        /\ initialized'
        /\ initCalls' = 1
        /\ initialized => UNCHANGED <<platform, config, provider, initialized, os, initCalls, request, rt, shutdown, store, server>>
      ]_vars

\* initialize() was called on a manager that was initialized already
C4_Witness ==
    /\ call.op = "initialize"
    /\ call.was_initialized
    /\ initialized
    /\ initCalls = 1

\* C10: a native provider asked to validate with a method other than psk, password
\* and publickey answers with the unsupported-method error, never Ok(false), and
\* does not query the identity source
C10_UnknownMethodIsError ==
    (IsValidate /\ provider.variant \in NativeVariants
        /\ call.method \notin {"psk", "password", "publickey"})
        => /\ call.active = Err(ErrUnsupportedMethod)
           /\ call.queries = 0

\* kerberos was asked of a native provider, for an account that exists, while the
\* identity source could not be reached
C10_Witness ==
    /\ IsValidate /\ provider.variant \in NativeVariants
    /\ call.method = "kerberos"
    /\ call.username \in os.users
    /\ ~call.spawn_ok
    /\ call.active = Err(ErrUnsupportedMethod)

\* C11: the active provider's validate_credentials fails with the unsupported-method
\* error exactly when its supports_auth_method(method) is false, and answers Ok(true)
\* or Ok(false) exactly when supports_auth_method(method) is true (calls whose
\* identity-source process could not be spawned set aside)
C11_UnsupportedIffNotSupported ==
    (IsValidate /\ call.spawn_ok)
        => /\ (call.active = Err(ErrUnsupportedMethod))
                <=> ~provider_supports_auth_method(provider, call.method)
           /\ call.active.ok <=> provider_supports_auth_method(provider, call.method)

\* the account of the last call exists: in the mock's user table, or on the machine
AccountExists ==
    IF provider.variant = "mock"
    THEN call.username \in DOMAIN provider.users
    ELSE call.username \in os.users

\* the credential of the last call is not the account's: the mock keeps the
\* password it was given; every account of the machine has the password c_good
CredentialIsWrong ==
    IF provider.variant = "mock"
    THEN \/ call.username \notin DOMAIN provider.credentials
         \/ provider.credentials[call.username] # call.credentials
    ELSE call.credentials # c_good

\* C12: with the password method and a reachable identity source, a call for a
\* username that does not exist and a call for an existing username with a wrong
\* credential both return Ok(false), so the two cannot be told apart
C12_DeniedLikeNonexistent ==
    (IsValidate /\ call.method = "password" /\ call.spawn_ok
        /\ (~AccountExists \/ CredentialIsWrong))
        => call.ret = Ok(FALSE)

\* the account of the last call is, on the machine, a member of require_group
InRequiredGroup ==
    /\ call.username \in os.users
    /\ vec_contains(os.groups_of[call.username], provider.config.require_group.val)

\* C15: a native provider asked with method "psk", the identity source reachable,
\* answers true iff the account exists and, when allow_all_users is false and
\* require_group is set, is a member of require_group; never true for an account
\* that does not exist
C15_PskExistsAndMember ==
    (IsValidate /\ provider.variant \in NativeVariants /\ call.method = "psk"
        /\ call.spawn_ok)
        => call.active =
              Ok(/\ call.username \in os.users
                 /\ (~provider.config.allow_all_users /\ provider.config.require_group.some)
                        => InRequiredGroup)

\* C21: validate_credentials, on every path including fallback, leaves the manager's
\* config (provider kind included), its initialized flag and its active provider as
\* they were: the fallback provider comes from a clone of the config with the kind
\* set to Internal and is never installed
C21_ValidateLeavesManager ==
    [][ValidateCredentials => UNCHANGED <<config, initialized, provider>>]_vars

\* a call went through the fallback arm on an initialized manager, and the manager
\* still holds its native provider and its Native kind
C21_Witness ==
    /\ IsValidate /\ call.fallback_built = 1
    /\ initialized
    /\ config.provider = "Native"
    /\ provider.variant \in NativeVariants

\* what one validate_credentials call of the active provider asks of the identity
\* source, for the arguments of the last call
ActiveQueries ==
    provider_validate_credentials(provider, os, call.username, call.credentials,
                                  call.method, call.spawn_ok).queries

\* C22: a validate_credentials call asks the active provider once and makes at most
\* one fallback attempt, only after the active provider returned an error; when the
\* active provider returns Ok(b) the result is Ok(b) and no fallback provider is built
C22_OneCallOneFallback ==
    IsValidate
        => /\ call.active = ActiveAnswer
           /\ call.queries = ActiveQueries
           /\ call.fallback_built \in {0, 1}
           /\ call.fallback_built = 1 => ~call.active.ok
           /\ call.active.ok
                => /\ call.ret = call.active
                   /\ call.fallback_built = 0
                   /\ call.fallback = None

\* a native provider with the fallback flag set denied the caller cleanly, after
\* asking the identity source, and no fallback provider was built
C22_Witness ==
    /\ IsValidate /\ config.fallback_to_internal /\ ActiveIsNative
    /\ call.active = Ok(FALSE)
    /\ call.queries > 0
    /\ call.ret = Ok(FALSE)
    /\ call.fallback_built = 0

\* the mock of the last call stores a credential for the username, with these bytes
StoredCredentialMatches ==
    /\ call.username \in DOMAIN provider.credentials
    /\ provider.credentials[call.username] = call.credentials

\* C23: the mock's validate_credentials(u, c, "password") is Ok(true) iff a
\* credential is stored for u and its bytes equal c, and Ok(false) otherwise; the
\* manager with a mock as the active provider returns the same value
C23_MockPassword ==
    (IsValidate /\ provider.variant = "mock" /\ call.method = "password")
        => /\ call.active = Ok(StoredCredentialMatches)
           /\ call.ret = call.active

\* the mock stores a credential for the username, the caller sent other bytes, and
\* the manager answered Ok(false)
C23_Witness ==
    /\ IsValidate /\ provider.variant = "mock" /\ call.method = "password"
    /\ call.username \in DOMAIN provider.credentials
    /\ provider.credentials[call.username] # call.credentials
    /\ call.ret = Ok(FALSE)

-----------------------------------------------------------------------------
(* The permission-mapping specification: group lists against the mappers *)

p_x_star == <<"x",":","*">>
p_x_y == <<"x",":","y">>
p_y_y == <<"y",":","y">>

\* HashMap of two entries
Map2(k1, v1, k2, v2) == [k \in {k1, k2} |-> IF k = k1 THEN v1 ELSE v2]

\* permission_mappings: none; two groups with overlapping lists; an admin group
\* with a mapping next to a group with an empty one
PermMappings ==
    {EmptyMap,
     Map2(grp_dev, <<p_x_star, p_x_y>>, grp_ops, <<p_x_y, p_y_y>>),
     Map2(grp_wheel, <<p_y_y>>, grp_rcp_users, <<>>)}

PermNativeConfigs ==
    {[allow_all_users |-> FALSE, require_group |-> g, permission_mapping |-> TRUE,
      admin_groups |-> a, permission_mappings |-> m] :
        g \in {None, Some(grp_rcp_users), Some(grp_dev)},
        a \in {default_admin_groups, <<grp_dev>>},
        m \in PermMappings}

\* the group lists drawn: up to MaxGroups groups of the machine, in any order,
\* repeats included
GroupLists == SeqsUpTo(Elems(AllGroups), MaxGroups)

\* a native manager on a machine where al has the drawn group list, which is also
\* the list handed to map_permissions_common
PermInit ==
    \E plat \in NativeVariants, ncfg \in PermNativeConfigs, gs \in GroupLists :
        LET cfg == [provider |-> "Native", fallback_to_internal |-> FALSE, native |-> ncfg]
        IN /\ platform = plat
           /\ config = cfg
           /\ provider = create_provider(cfg, plat).val
           /\ initialized = FALSE
           /\ os = [users |-> {u_al}, groups_of |-> [u \in {u_al} |-> gs]]
           /\ initCalls = 0
           /\ request = Some([groups |-> gs])
           /\ shutdown = NoChannel
           /\ store = NoStore
           /\ server = NoServer
           /\ rt = NoRuntime
           /\ call = [op |-> "new"]

\* AuthManager::get_permissions
GetPermissions ==
    \E username \in {u_al, u_bo}, spawn_ok \in BOOLEAN :
        LET r == manager_get_permissions(config, platform, provider, os,
                                         User(username, "User"), spawn_ok)
        IN /\ call' = [op |-> "get_permissions", username |-> username,
                       spawn_ok |-> spawn_ok, ret |-> r.ret, active |-> r.active,
                       queries |-> r.queries, fallback_built |-> r.fallback_built]
           /\ UNCHANGED <<platform, config, provider, initialized, os, initCalls, request, rt, shutdown, store, server>>

\* map_permissions_common applied to the drawn group list and the configuration
MapPermissionsCommon ==
    /\ request.some
    /\ call' = [op |-> "map_permissions_common", groups |-> request.val.groups,
                ret |-> map_permissions_common(request.val.groups,
                            config.native.admin_groups, config.native.require_group,
                            config.native.permission_mappings)]
    /\ UNCHANGED <<platform, config, provider, initialized, os, initCalls, request, rt, shutdown, store, server>>

PermNext == GetPermissions \/ MapPermissionsCommon

PermSpec == PermInit /\ [][PermNext]_vars

-----------------------------------------------------------------------------
(* Claims about the permission mapping, under PermSpec *)

IsMapCommon == call.op = "map_permissions_common"

AdminSet == {perm_admin_all, perm_connect_all, perm_app_all}

\* the list has a member of admin_groups
HasAdminGroup(groups) == Elems(groups) \cap Elems(config.native.admin_groups) # {}

\* the groups of the list that have an entry in permission_mappings
MappedGroups(groups) == Elems(groups) \cap DOMAIN config.native.permission_mappings

\* the union of the mapped permissions of the groups of the list
MappedUnion(groups) ==
    UNION {Elems(config.native.permission_mappings[g]) : g \in MappedGroups(groups)}

RequireGroupPresent(groups) ==
    /\ config.native.require_group.some
    /\ config.native.require_group.val \in Elems(groups)

CommonOf(groups) ==
    map_permissions_common(groups, config.native.admin_groups,
                           config.native.require_group, config.native.permission_mappings)

\* the lists with the same groups as `groups`, up to one element longer: its
\* permutations, and the lists that repeat a group
SameGroups(groups) ==
    {q \in SeqsUpTo(Elems(groups), Len(groups) + 1) : Elems(q) = Elems(groups)}

\* C5: for a group list with a member of admin_groups, map_permissions_common
\* returns exactly admin:*, connect:* and app:*, whatever the mappings and
\* require_group are
C5_AdminEscalation ==
    (IsMapCommon /\ HasAdminGroup(call.groups))
        => /\ Elems(call.ret) = AdminSet
           /\ Len(call.ret) = 3

\* an admin whose admin group has a mapping of its own
C5_Witness ==
    /\ IsMapCommon /\ HasAdminGroup(call.groups)
    /\ \E g \in MappedGroups(call.groups) :
          /\ g \in Elems(config.native.admin_groups)
          /\ config.native.permission_mappings[g] # <<>>
    /\ Elems(call.ret) = AdminSet

\* C6: every native variant's get_permissions returns exactly admin:*, connect:*
\* and app:* for a principal whose resolved groups have a member of admin_groups
C6_NativeAdminEscalation ==
    (/\ call.op = "get_permissions"
     /\ provider.variant \in NativeVariants
     /\ get_user_groups(provider, os, call.username, call.spawn_ok).res.ok
     /\ HasAdminGroup(get_user_groups(provider, os, call.username, call.spawn_ok).res.val))
        => /\ call.ret.ok
           /\ Elems(call.ret.val) = AdminSet
           /\ Len(call.ret.val) = 3

\* C8: for a group list with no admin group and no group with a mapping,
\* map_permissions_common returns [connect:basic] when require_group is set and in
\* the list, and nothing otherwise
C8_BasicConnectFallback ==
    (IsMapCommon /\ ~HasAdminGroup(call.groups) /\ MappedGroups(call.groups) = {})
        => call.ret = IF RequireGroupPresent(call.groups)
                      THEN <<perm_connect_basic>> ELSE <<>>

\* the required group alone earned connect:basic
C8_Witness ==
    /\ IsMapCommon /\ ~HasAdminGroup(call.groups) /\ MappedGroups(call.groups) = {}
    /\ RequireGroupPresent(call.groups)
    /\ call.ret = <<perm_connect_basic>>

\* C9 as claimed: for a group list with no admin group, the result as a set is the
\* union of the mappings of its groups, and is the same for every permutation of
\* the list and for a list with repeated groups
C9_UnionOfMappings ==
    (IsMapCommon /\ ~HasAdminGroup(call.groups))
        => /\ Elems(call.ret) = MappedUnion(call.groups)
           /\ \A q \in SameGroups(call.groups) : Elems(CommonOf(q)) = Elems(call.ret)

\* C9 as amended: the result as a set is the union of the mappings of the groups,
\* or connect:basic alone when that union is empty and require_group is set and in
\* the list; it is the same set for every permutation and for repeated groups
C9_UnionOrBasic ==
    (IsMapCommon /\ ~HasAdminGroup(call.groups))
        => /\ Elems(call.ret) =
                 IF MappedUnion(call.groups) = {} /\ RequireGroupPresent(call.groups)
                 THEN {perm_connect_basic}
                 ELSE MappedUnion(call.groups)
           /\ \A q \in SameGroups(call.groups) : Elems(CommonOf(q)) = Elems(call.ret)

\* two groups with overlapping mappings, both in the list
C9_Witness ==
    /\ IsMapCommon /\ ~HasAdminGroup(call.groups)
    /\ Cardinality(MappedGroups(call.groups)) = 2
    /\ Elems(call.ret) = {p_x_star, p_x_y, p_y_y}
    /\ Len(call.ret) = 3

-----------------------------------------------------------------------------
(* The wildcard specification: permission queries against granted patterns *)

PermChars == {"x", "y", ":", "*"}

\* the requested permissions drawn: every string of 1..MaxPermLen characters
PermStrings == UNION {[1..k -> PermChars] : k \in 1..MaxPermLen}

\* the grants of al in the mock: none, an exact one, a wildcard, both kinds
MockGrants == {<<>>, <<p_x_y>>, <<p_x_star>>, <<p_y_y, p_x_star>>}

RECURSIVE with_permissions(_, _, _)
with_permissions(prov, username, permissions) ==
    IF Len(permissions) = 0 THEN prov
    ELSE with_permissions(with_permission(prov, username, permissions[1]),
                          username, Tail(permissions))

WildcardNativeConfig ==
    [allow_all_users |-> FALSE, require_group |-> Some(grp_rcp_users),
     permission_mapping |-> TRUE, admin_groups |-> default_admin_groups,
     permission_mappings |-> Map2(grp_dev, <<p_x_star, p_x_y>>, grp_ops, <<p_x_y, p_y_y>>)]

\* a manager whose provider is a mock with al's grants, or a native provider on a
\* machine where al is in one group; and the query a caller is about to make
WildcardInit ==
    \E plat \in NativeVariants, kind \in {"Native", "Mock"}, grants \in MockGrants,
       g \in {grp_dev, grp_ops, grp_wheel}, role \in {"User", "Admin"},
       permission \in PermStrings, spawn_ok \in BOOLEAN :
        LET cfg == [provider |-> kind, fallback_to_internal |-> FALSE,
                    native |-> WildcardNativeConfig]
        IN /\ kind = "Mock" => plat = "linux" /\ g = grp_dev /\ spawn_ok
           /\ kind = "Native" => grants = <<>> /\ role = "User"
           /\ platform = plat
           /\ config = cfg
           /\ provider = IF kind = "Mock"
                         THEN with_permissions(with_user(MockNew, User(u_al, role)),
                                               u_al, grants)
                         ELSE create_provider(cfg, plat).val
           /\ initialized = FALSE
           /\ os = [users |-> {u_al}, groups_of |-> [u \in {u_al} |-> <<g>>]]
           /\ initCalls = 0
           /\ request = Some([user |-> User(u_al, role), permission |-> permission,
                              spawn_ok |-> spawn_ok])
           /\ shutdown = NoChannel
           /\ store = NoStore
           /\ server = NoServer
           /\ rt = NoRuntime
           /\ call = [op |-> "new"]

\* AuthManager::has_permission
HasPermission ==
    /\ request.some
    /\ LET r == manager_has_permission(config, platform, provider, os, request.val.user,
                                       request.val.permission, request.val.spawn_ok)
       IN call' = [op |-> "has_permission", user |-> request.val.user,
                   permission |-> request.val.permission,
                   spawn_ok |-> request.val.spawn_ok,
                   ret |-> r.ret, active |-> r.active, queries |-> r.queries,
                   fallback_built |-> r.fallback_built]
    /\ UNCHANGED <<platform, config, provider, initialized, os, initCalls, request, rt, shutdown, store, server>>

WildcardNext == HasPermission

WildcardSpec == WildcardInit /\ [][WildcardNext]_vars

-----------------------------------------------------------------------------
(* Claims about the wildcard check, under WildcardSpec *)

\* the wildcard rule of the design: equal, or the pattern ends in ":*" and the
\* request starts with the pattern's prefix up to and including the colon
PatternMatches(pattern, permission) ==
    \/ pattern = permission
    \/ /\ ends_with(pattern, str_colon_star)
       /\ starts_with(permission, SubSeq(pattern, 1, Len(pattern) - 1))

\* the patterns granted to the user of the last call
GrantedPatterns ==
    IF provider.variant = "mock"
    THEN mock_get_permissions(provider, call.user).res.val
    ELSE map_permissions(provider,
             get_user_groups(provider, os, call.user.username, call.spawn_ok).res.val)

\* C7: has_permission is true exactly when a granted pattern P matches the request
\* R: P = R, or P ends in ":*" and R starts with P up to and including the colon
\* (the mock's Admin role, which has every permission, set aside)
C7_WildcardRule ==
    (call.op = "has_permission" /\ call.ret.ok /\ call.user.role # "Admin")
        => call.ret.val =
              (\E i \in 1..Len(GrantedPatterns) :
                  PatternMatches(GrantedPatterns[i], call.permission))

\* C24: in the mock a principal whose role is Admin has every permission:
\* has_permission(user, R) is true for every R, whatever was or was not granted to
\* that username
C24_MockAdminHasAll ==
    (call.op = "has_permission" /\ provider.variant = "mock" /\ call.user.role = "Admin")
        => call.ret = Ok(TRUE)

\* an Admin with no grant at all asked for a permission and has it
C24_Witness ==
    /\ call.op = "has_permission" /\ provider.variant = "mock"
    /\ call.user.role = "Admin"
    /\ call.user.username \notin DOMAIN provider.permissions
    /\ call.ret = Ok(TRUE)

\* what get_permissions of the active provider returns for the user of the last call
PermissionsOfUser ==
    provider_get_permissions(provider, os, call.user, call.spawn_ok).res

\* C27: for every provider variant and every principal has_permission and
\* get_permissions agree: has_permission(user, R) is true exactly when some pattern
\* of get_permissions(user) matches R under the wildcard rule
C27_HasAgreesWithGet ==
    (call.op = "has_permission" /\ call.ret.ok /\ PermissionsOfUser.ok)
        => call.ret.val =
              (\E i \in 1..Len(PermissionsOfUser.val) :
                  PatternMatches(PermissionsOfUser.val[i], call.permission))

-----------------------------------------------------------------------------
(* The delegation specification: permission queries through a manager whose   *)
(* fallback flag is on or off                                                 *)

\* the permissions asked for
DelegationPermissions == {p_x_y, p_y_y, perm_connect_all, perm_connect_basic}

\* a manager over a native provider or the tests' mock, with the fallback flag on or
\* off, on the default machine with al also in dev; and the query about to be made
DelegationInit ==
    \E plat \in NativeVariants, kind \in {"Native", "Mock"}, fb \in BOOLEAN,
       username \in {u_al, u_bo}, permission \in DelegationPermissions,
       spawn_ok \in BOOLEAN :
        LET cfg == [provider |-> kind, fallback_to_internal |-> fb,
                    native |-> WildcardNativeConfig]
        IN /\ kind = "Mock" => plat = "linux"
           /\ platform = plat
           /\ config = cfg
           /\ provider = IF kind = "Mock"
                         THEN with_permission(TestMock, u_al, p_x_y)
                         ELSE create_provider(cfg, plat).val
           /\ initialized = FALSE
           /\ os = [users |-> {u_al}, groups_of |-> [u \in {u_al} |-> <<grp_dev>>]]
           /\ initCalls = 0
           /\ request = Some([user |-> User(username, "User"), permission |-> permission,
                              spawn_ok |-> spawn_ok])
           /\ shutdown = NoChannel
           /\ store = NoStore
           /\ server = NoServer
           /\ rt = NoRuntime
           /\ call = [op |-> "new"]

DelegationNext == HasPermission \/ GetPermissions

DelegationSpec == DelegationInit /\ [][DelegationNext]_vars

\* what the active provider answers to the last permission query
ActivePermissionAnswer ==
    IF call.op = "has_permission"
    THEN provider_has_permission(provider, os, call.user, call.permission, call.spawn_ok).res
    ELSE provider_get_permissions(provider, os, User(call.username, "User"),
                                  call.spawn_ok).res

\* C13: has_permission and get_permissions of the manager return exactly what the
\* active provider returns, its errors unchanged, and build no fallback provider,
\* whatever fallback_to_internal says
C13_PermissionDelegation ==
    (call.op \in {"has_permission", "get_permissions"})
        => /\ call.ret = ActivePermissionAnswer
           /\ call.fallback_built = 0

\* a native provider failed a has_permission query of a manager whose fallback flag
\* is set, and the caller got the provider's error
C13_Witness ==
    /\ call.op = "has_permission"
    /\ config.fallback_to_internal /\ ActiveIsNative
    /\ ~ActivePermissionAnswer.ok
    /\ call.ret = Err(ErrSpawn)

-----------------------------------------------------------------------------
(* The user-management specification: the write operations of a provider    *)

UserRoles == {"Admin", "User", "Guest"}

\* a provider as the factory builds it, or the tests' mock
UserMgmtInit ==
    \E plat \in NativeVariants, kind \in {"Native", "Mock"}, ncfg \in ManagerNativeConfigs,
       installed \in BOOLEAN :
        LET cfg == [provider |-> kind, fallback_to_internal |-> FALSE, native |-> ncfg]
        IN /\ kind = "Mock" => plat = "linux" /\ ncfg = DefaultNativeConfig
           /\ installed => kind = "Mock"
           /\ platform = plat
           /\ config = cfg
           /\ provider = IF installed THEN TestMock ELSE create_provider(cfg, plat).val
           /\ initialized = FALSE
           /\ os = DefaultOs
           /\ initCalls = 0
           /\ request = None
           /\ shutdown = NoChannel
           /\ store = NoStore
           /\ server = NoServer
           /\ rt = NoRuntime
           /\ call = [op |-> "new"]

\* AuthProvider::create_user
CreateUser ==
    \E username \in Usernames, role \in UserRoles :
        LET r == provider_create_user(provider, User(username, role))
        IN /\ provider' = r.prov
           /\ call' = [op |-> "create_user", user |-> User(username, role), ret |-> r.ret]
           /\ UNCHANGED <<platform, config, initialized, os, initCalls, request, rt, shutdown, store, server>>

\* AuthProvider::update_user
UpdateUser ==
    \E username \in Usernames, role \in UserRoles :
        LET r == provider_update_user(provider, User(username, role))
        IN /\ provider' = r.prov
           /\ call' = [op |-> "update_user", user |-> User(username, role), ret |-> r.ret]
           /\ UNCHANGED <<platform, config, initialized, os, initCalls, request, rt, shutdown, store, server>>

\* AuthProvider::delete_user
DeleteUser ==
    \E id \in Usernames :
        LET r == provider_delete_user(provider, id)
        IN /\ provider' = r.prov
           /\ call' = [op |-> "delete_user", id |-> id, ret |-> r.ret]
           /\ UNCHANGED <<platform, config, initialized, os, initCalls, request, rt, shutdown, store, server>>

UserMgmtNext == CreateUser \/ UpdateUser \/ DeleteUser

UserMgmtSpec == UserMgmtInit /\ [][UserMgmtNext]_vars

UnsupportedErrors ==
    {ErrUserCreationUnsupported, ErrUserUpdatesUnsupported, ErrUserDeletionUnsupported}

\* C14: on a native provider every create_user, update_user and delete_user fails
\* with an unsupported error and leaves the provider as it was, and
\* supports_user_management() is false; a write returns Ok only on a provider
\* whose supports_user_management() is true
C14_NativeWritesUnsupported ==
    [][(CreateUser \/ UpdateUser \/ DeleteUser) =>
        /\ provider.variant \in NativeVariants =>
              /\ ~call'.ret.ok
              /\ call'.ret.err \in UnsupportedErrors
              /\ provider' = provider
              /\ ~provider_supports_user_management(provider)
        /\ call'.ret.ok => provider_supports_user_management(provider)
      ]_vars

\* create_user was refused by a native provider, which holds no user
C14_Witness ==
    /\ call.op = "create_user"
    /\ provider.variant \in NativeVariants
    /\ call.ret = Err(ErrUserCreationUnsupported)
    /\ provider.users = EmptyMap

-----------------------------------------------------------------------------
(* The construction specification: the factory and AuthManager::new          *)

\* no manager yet: a build of the daemon and the configuration it was given
FactoryInit ==
    \E plat \in Platforms, kind \in ProviderTypes, fb \in BOOLEAN,
       ncfg \in ManagerNativeConfigs :
        /\ platform = plat
        /\ config = None
        /\ provider = None
        /\ initialized = FALSE
        /\ os = DefaultOs
        /\ initCalls = 0
        /\ request = Some([provider |-> kind, fallback_to_internal |-> fb, native |-> ncfg])
        /\ shutdown = NoChannel
        /\ store = NoStore
        /\ server = NoServer
        /\ rt = NoRuntime
        /\ call = [op |-> "start"]

\* AuthProviderFactory::create_provider on the configuration
CreateProvider ==
    /\ request.some
    /\ call' = [op |-> "create_provider", cfg |-> request.val,
                ret |-> create_provider(request.val, platform)]
    /\ UNCHANGED <<platform, config, provider, initialized, os, initCalls, request, rt, shutdown, store, server>>

\* AuthManager::new on the configuration: a manager, or the factory's error
New ==
    /\ request.some
    /\ LET made == manager_new(request.val, platform)
       IN /\ call' = [op |-> "new", cfg |-> request.val,
                      ret |-> IF made.ok THEN Ok("manager") ELSE made]
          /\ IF made.ok
             THEN /\ config' = made.val.config
                  /\ provider' = made.val.provider
                  /\ initialized' = made.val.initialized
             ELSE UNCHANGED <<config, provider, initialized>>
    /\ UNCHANGED <<platform, os, initCalls, request, rt, shutdown, store, server>>

FactoryNext == CreateProvider \/ New

FactorySpec == FactoryInit /\ [][FactoryNext]_vars

PlaceholderKinds == {"Internal", "Ldap", "OAuth"}

NotImplementedErrors ==
    {ErrInternalNotImplemented, ErrLdapNotImplemented, ErrOAuthNotImplemented}

\* what the design says the factory returns for a kind on a build
FactoryTable(cfg, plat, ret) ==
    /\ cfg.provider \in PlaceholderKinds => ~ret.ok /\ ret.err \in NotImplementedErrors
    /\ cfg.provider = "Mock" => ret = Ok(MockNew)
    /\ (cfg.provider = "Native" /\ plat \in NativeVariants) =>
          /\ ret.ok
          /\ ret.val.variant = plat
          /\ ret.val.config = cfg.native
    /\ (cfg.provider = "Native" /\ plat \notin NativeVariants) =>
          ret = Err(ErrNativeUnsupported)

\* C16: the factory fails with a not-implemented error for Internal, Ldap and OAuth,
\* yields a mock for Mock and the build's native variant with the native
\* configuration unchanged for Native; AuthManager::new returns the factory's error
\* and makes no manager, so no manager has a placeholder kind
C16_FactoryDeterministic ==
    /\ call.op = "create_provider" => FactoryTable(call.cfg, platform, call.ret)
    /\ call.op = "new" =>
          /\ call.ret.ok <=> call.cfg.provider \notin PlaceholderKinds
                              /\ (call.cfg.provider = "Native" => platform \in NativeVariants)
          /\ call.ret.ok => config = call.cfg /\ FactoryTable(config, platform, Ok(provider))
          /\ ~call.ret.ok => provider = None /\ FactoryTable(call.cfg, platform, call.ret)
    /\ provider # None => config.provider \notin PlaceholderKinds

\* AuthManager::new was refused for the Internal kind and no manager exists
C16_Witness ==
    /\ call.op = "new"
    /\ call.cfg.provider = "Internal"
    /\ call.ret = Err(ErrInternalNotImplemented)
    /\ provider = None

-----------------------------------------------------------------------------
(* The group-cache specification: group lookups of a native provider while the *)
(* memberships of the machine change                                          *)

\* the group lists al can have on the machine
CacheGroupLists == {<<>>, <<grp_dev>>, <<grp_ops>>, <<grp_dev, grp_ops>>}

\* a manager over a native provider, on a machine where al is in some groups
CacheInit ==
    \E plat \in NativeVariants, gs \in CacheGroupLists :
        LET cfg == [provider |-> "Native", fallback_to_internal |-> FALSE,
                    native |-> DefaultNativeConfig]
        IN /\ platform = plat
           /\ config = cfg
           /\ provider = create_provider(cfg, plat).val
           /\ initialized = FALSE
           /\ os = [users |-> {u_al}, groups_of |-> [u \in {u_al} |-> gs]]
           /\ initCalls = 0
           /\ request = None
           /\ shutdown = NoChannel
           /\ store = NoStore
           /\ server = NoServer
           /\ rt = NoRuntime
           /\ call = [op |-> "new"]

\* <Variant>AuthProvider::get_user_groups, which takes &self: the provider is as it was
GetUserGroups ==
    \E username \in {u_al, u_bo}, spawn_ok \in BOOLEAN :
        LET a == get_user_groups(provider, os, username, spawn_ok)
        IN /\ call' = [op |-> "get_user_groups", username |-> username,
                       spawn_ok |-> spawn_ok, ret |-> a.res, queries |-> a.queries,
                       cached_before |-> username \in DOMAIN provider.group_cache]
           /\ UNCHANGED <<platform, config, provider, initialized, os, initCalls, request, rt, shutdown, store, server>>

\* the administrator of the machine changes the groups of al
OsGroupsChange ==
    \E gs \in CacheGroupLists :
        /\ gs # os.groups_of[u_al]
        /\ os' = [os EXCEPT !.groups_of[u_al] = gs]
        /\ call' = [op |-> "os_groups_change"]
        /\ UNCHANGED <<platform, config, provider, initialized, initCalls, request, rt, shutdown, store, server>>

CacheNext == GetUserGroups \/ Initialize \/ OsGroupsChange

CacheSpec == CacheInit /\ [][CacheNext]_vars

\* C17: a successful group resolution leaves the resolved list in the provider's
\* group cache under the username; a lookup for a cached username makes no query of
\* the identity source; initialize() leaves the cache empty
C17_GroupsMemoized ==
    /\ (call.op = "get_user_groups" /\ call.ret.ok) =>
          /\ call.username \in DOMAIN provider.group_cache
          /\ provider.group_cache[call.username] = call.ret.val
    /\ (call.op = "get_user_groups" /\ call.cached_before) => call.queries = 0
    /\ (call.op = "initialize" /\ ~call.was_initialized) => provider.group_cache = EmptyMap

-----------------------------------------------------------------------------
(* The cached-lookup specification: the lookups of improved_native over the   *)
(* provider's group cache, while the memberships of the machine change       *)

\* improved_native::get_linux_user_groups, handed the provider's group cache
GetLinuxUserGroups ==
    \E username \in {u_al, u_bo}, spawn_ok \in BOOLEAN :
        LET r == get_linux_user_groups(username, provider.group_cache, os, spawn_ok)
        IN /\ provider' = [provider EXCEPT !.group_cache = r.cache]
           /\ call' = [op |-> "get_linux_user_groups", username |-> username,
                       spawn_ok |-> spawn_ok, ret |-> r.res, queries |-> r.queries,
                       hit |-> r.hit]
           /\ UNCHANGED <<platform, config, initialized, os, initCalls, request, rt, shutdown, store, server>>

\* improved_native::get_unix_user_groups, handed the provider's group cache
GetUnixUserGroups ==
    \E username \in {u_al, u_bo}, spawn_ok \in BOOLEAN, etc_group_ok \in BOOLEAN :
        LET r == get_unix_user_groups(username, provider.group_cache, os, spawn_ok,
                                      etc_group_ok)
        IN /\ provider' = [provider EXCEPT !.group_cache = r.cache]
           /\ call' = [op |-> "get_unix_user_groups", username |-> username,
                       spawn_ok |-> spawn_ok, ret |-> r.res, queries |-> r.queries,
                       hit |-> r.hit]
           /\ UNCHANGED <<platform, config, initialized, os, initCalls, request, rt, shutdown, store, server>>

CachedLookupNext ==
    \/ platform = "linux" /\ GetLinuxUserGroups
    \/ platform = "unix" /\ GetUnixUserGroups
    \/ Initialize
    \/ OsGroupsChange

CachedLookupInit == CacheInit /\ platform \in {"linux", "unix"}

CachedLookupSpec == CachedLookupInit /\ [][CachedLookupNext]_vars

\* what a lookup with an empty cache and a reachable identity source returns now
FreshLookup(username) ==
    IF platform = "linux"
    THEN get_linux_user_groups(username, EmptyMap, os, TRUE).res
    ELSE get_unix_user_groups(username, EmptyMap, os, TRUE, TRUE).res

\* C18: a lookup answered from the group cache returns the list a fresh query of
\* the identity source would return at that moment
C18_CacheHitIsFresh ==
    (call.op \in {"get_linux_user_groups", "get_unix_user_groups"} /\ call.hit)
        => call.ret = FreshLookup(call.username)

-----------------------------------------------------------------------------
(* The concurrency specification: tasks calling one manager on a runtime      *)

\* a manager over the Linux provider or the tests' mock, on a runtime with one or
\* two worker threads, every task idle
ConcurrencyInit ==
    \E kind \in {"Native", "Mock"}, w \in WorkerCounts :
        LET cfg == [provider |-> kind, fallback_to_internal |-> FALSE,
                    native |-> DefaultNativeConfig]
        IN /\ platform = "linux"
           /\ config = cfg
           /\ provider = IF kind = "Mock" THEN TestMock ELSE create_provider(cfg, "linux").val
           /\ initialized = FALSE
           /\ os = DefaultOs
           /\ initCalls = 0
           /\ request = None
           /\ shutdown = NoChannel
           /\ store = NoStore
           /\ server = NoServer
           /\ rt = [workers |-> w, pc |-> [t \in Tasks |-> "idle"],
                    op |-> [t \in Tasks |-> "none"], writer |-> NoTask, readers |-> {},
                    queue |-> <<>>]
           /\ call = [op |-> "new"]

\* the identity-source queries the provider makes for an operation of the manager
ProviderQueries(op) ==
    CASE op = "validate_credentials" ->
            provider_validate_credentials(provider, os, u_al, c_good, "psk", TRUE).queries
      [] op = "get_user_by_username" ->
            provider_get_user_by_username(provider, os, u_al, TRUE).queries
      [] op = "has_permission" ->
            provider_has_permission(provider, os, User(u_al, "User"), p_x_y, TRUE).queries
      [] op = "get_permissions" ->
            provider_get_permissions(provider, os, User(u_al, "User"), TRUE).queries
      [] op = "initialize" -> provider_initialize_queries(provider)

\* a task calls a method of the manager and runs up to its lock().await; an
\* initialize() on an initialized manager returns at once. &mut self admits one
\* initialize() at a time.
TaskCalls(t) ==
    \E op \in ReadOps \cup {"initialize"} :
        /\ rt.pc[t] = "idle"
        /\ FreeWorker(rt)
        /\ op = "initialize" => \A u \in Tasks : rt.op[u] # "initialize"
        /\ rt' = IF op = "initialize" /\ initialized THEN rt
                 ELSE [rt EXCEPT !.pc[t] = IF op = "initialize" THEN "want_write"
                                           ELSE "want_read",
                                 !.op[t] = op, !.queue = Append(rt.queue, t)]
        /\ call' = [op |-> op, task |-> t, step |-> "called"]
        /\ UNCHANGED <<platform, config, provider, initialized, os, initCalls, request, shutdown, store, server>>

\* the lock is granted to the task at the head of its queue
LockGranted(t) ==
    /\ rt.queue # <<>>
    /\ t = Head(rt.queue)
    /\ IF rt.pc[t] = "want_read"
       THEN /\ can_read(rt, t)
            /\ rt' = [rt EXCEPT !.readers = rt.readers \cup {t}, !.pc[t] = "locked",
                                !.queue = Tail(rt.queue)]
       ELSE /\ can_write(rt, t)
            /\ rt' = [rt EXCEPT !.writer = t, !.pc[t] = "locked", !.queue = Tail(rt.queue)]
    /\ call' = [op |-> rt.op[t], task |-> t, step |-> "locked"]
    /\ UNCHANGED <<platform, config, provider, initialized, os, initCalls, request, shutdown, store, server>>

\* the task is polled with its guard and calls the provider: a call that makes no
\* query returns and drops the guard in the same poll, a call that queries the
\* identity source blocks the worker thread in Command::output()
ProviderCalled(t) ==
    /\ rt.pc[t] = "locked"
    /\ FreeWorker(rt)
    /\ IF ProviderQueries(rt.op[t]) > 0
       THEN /\ rt' = [rt EXCEPT !.pc[t] = "querying"]
            /\ UNCHANGED <<provider, initialized, initCalls>>
       ELSE /\ rt' = release(rt, t)
            /\ IF rt.op[t] = "initialize"
               THEN /\ provider' = provider_initialize(provider)
                    /\ initialized' = TRUE
                    /\ initCalls' = initCalls + 1
               ELSE UNCHANGED <<provider, initialized, initCalls>>
    /\ call' = [op |-> rt.op[t], task |-> t, step |-> "provider"]
    /\ UNCHANGED <<platform, config, os, request, shutdown, store, server>>

\* the process of the query exits; the call returns and drops its guard
QueryReturns(t) ==
    /\ rt.pc[t] = "querying"
    /\ rt' = release(rt, t)
    /\ IF rt.op[t] = "initialize"
       THEN /\ provider' = provider_initialize(provider)
            /\ initialized' = TRUE
            /\ initCalls' = initCalls + 1
       ELSE UNCHANGED <<provider, initialized, initCalls>>
    /\ call' = [op |-> rt.op[t], task |-> t, step |-> "returned"]
    /\ UNCHANGED <<platform, config, os, request, shutdown, store, server>>

ConcurrencyNext ==
    \E t \in Tasks : TaskCalls(t) \/ LockGranted(t) \/ ProviderCalled(t) \/ QueryReturns(t)

ConcurrencySpec == ConcurrencyInit /\ [][ConcurrencyNext]_vars

\* C19: the write side of the provider lock is never held while a blocking
\* identity-source call is in progress; the four query operations take the read
\* side only; a reader at the head of the queue is granted the lock whenever no
\* writer holds it, however many readers hold it
C19_WriterNeverBlocksOnQuery ==
    /\ rt.writer # NoTask => \A t \in Tasks : rt.pc[t] # "querying"
    /\ \A t \in Tasks : rt.op[t] \in ReadOps => rt.writer # t
    /\ \A t \in Tasks :
          (rt.queue # <<>> /\ t = Head(rt.queue) /\ rt.pc[t] = "want_read"
              /\ rt.writer = NoTask)
          => ENABLED LockGranted(t)

\* two tasks hold the read side at the same time, one of them inside a query of
\* the identity source
C19_Witness ==
    /\ Cardinality(rt.readers) >= 2
    /\ \E t \in rt.readers : rt.pc[t] = "querying"

\* C20: while a task is inside a blocking identity-source query, every other task
\* that is ready to call the manager can be polled
C20_QueryDoesNotStarve ==
    \A t \in Tasks, u \in Tasks :
        (t # u /\ rt.pc[t] = "querying" /\ rt.pc[u] = "idle") => ENABLED TaskCalls(u)

-----------------------------------------------------------------------------
(* The lookup specification: users looked up by name and by id on a native     *)
(* provider                                                                    *)

\* the values Uuid::new_v4 may produce
FreshIds == {"v4-a", "v4-b"}

\* the id of the User that get_user_by_username builds: derived from the name
\* on Linux, random elsewhere
new_user_id(variant, username, fresh) ==
    IF variant = "linux" THEN <<"v5", username>> ELSE <<"v4", fresh>>

\* every id a caller may ask for
UserIds ==
    {<<"v5", u>> : u \in Usernames} \cup {<<"v4", f>> : f \in FreshIds}

\* a mutant of native_get_user: an id derived from a name is mapped back to it
native_get_user_reverse(prov, id) ==
    IF id[1] = "v5" THEN Answer(Ok(Some(User(id[2], "User"))), 0) ELSE Answer(Ok(None), 0)

\* get_user of the four native providers
native_get_user(prov, id) ==
    Answer(Ok(None), 0)

\* a native provider of any variant, on a machine of the manager specification
LookupInit ==
    \E plat \in NativeVariants, o \in ManagerOsStates :
        LET cfg == [provider |-> "Native", fallback_to_internal |-> FALSE,
                    native |-> DefaultNativeConfig]
        IN /\ platform = plat
           /\ config = cfg
           /\ provider = create_provider(cfg, plat).val
           /\ initialized = FALSE
           /\ os = o
           /\ initCalls = 0
           /\ request = None
           /\ shutdown = NoChannel
           /\ store = NoStore
           /\ server = NoServer
           /\ rt = NoRuntime
           /\ call = [op |-> "new"]

\* AuthManager::get_user_by_username; the call records the id of the User returned
GetUserByUsername ==
    \E username \in Usernames, spawn_ok \in BOOLEAN, fresh \in FreshIds :
        LET r == provider_get_user_by_username(provider, os, username, spawn_ok)
        IN /\ call' = [op |-> "get_user_by_username", username |-> username,
                       spawn_ok |-> spawn_ok, ret |-> r.res,
                       id |-> IF r.res.ok /\ r.res.val.some
                              THEN Some(new_user_id(provider.variant, username, fresh))
                              ELSE None]
           /\ UNCHANGED <<platform, config, provider, initialized, os, initCalls, request, rt, shutdown, store, server>>

\* AuthProvider::get_user on the native provider; the call records whether the id
\* is the one the lookup by name has just returned
GetUser ==
    \E id \in UserIds :
        /\ call' = [op |-> "get_user", id |-> id,
                    ret |-> native_get_user(provider, id).res,
                    just_returned |-> /\ call.op = "get_user_by_username"
                                      /\ call.id = Some(id)]
        /\ UNCHANGED <<platform, config, provider, initialized, os, initCalls, request, rt, shutdown, store, server>>

LookupNext == GetUserByUsername \/ GetUser \/ Initialize

LookupSpec == LookupInit /\ [][LookupNext]_vars

\* C25: get_user(id) of every native provider variant returns Ok(None) for every
\* id in every provider state, the id of the User that get_user_by_username has
\* just returned included
C25_NativeGetUserNone ==
    call.op = "get_user" => call.ret = Ok(None)

\* an initialized provider was asked for the id of the User it has just returned,
\* and answered Ok(None)
C25_Witness ==
    /\ call.op = "get_user" /\ call.just_returned
    /\ initialized
    /\ call.ret = Ok(None)

-----------------------------------------------------------------------------
(* The shutdown specification: stop() of Service and ServiceLifecycle over a   *)
(* bounded tokio mpsc channel whose receiver takes signals or is dropped       *)

ErrShutdownSignal == "Service error: Failed to send shutdown signal"

\* mpsc::Sender::send resolves: the receiver is gone, or the buffer has room
mpsc_send_ready(ch) == ~ch.rx_open \/ ch.queue < ch.capacity

\* mpsc::Sender::send, once it resolves: SendError after the receiver is gone,
\* one value in the buffer otherwise
mpsc_send(ch) ==
    IF ~ch.rx_open
    THEN [ret |-> Err("SendError"), ch |-> ch]
    ELSE [ret |-> Ok("unit"), ch |-> [ch EXCEPT !.queue = @ + 1, !.sent = @ + 1]]

\* a mutant of service_stop: a stopped flag is kept, and a stop() after the first
\* returns Ok without sending
service_stop_once(ch) ==
    IF ch.sent > 0 THEN [ret |-> Ok("unit"), ch |-> ch]
    ELSE LET r == mpsc_send(ch)
         IN [ret |-> IF r.ret.ok THEN Ok("unit") ELSE Err(ErrShutdownSignal), ch |-> r.ch]

\* Service::stop and ServiceLifecycle::stop, from the point where send resolves
service_stop(ch) ==
    LET r == mpsc_send(ch)
    IN [ret |-> IF r.ret.ok THEN Ok("unit") ELSE Err(ErrShutdownSignal), ch |-> r.ch]

\* a Service or a ServiceLifecycle over the sender of a channel of capacity 1 (the
\* tests) or 2, the receiver held by the caller
ShutdownInit ==
    \E owner \in {"Service", "ServiceLifecycle"}, capacity \in {1, 2} :
        /\ platform = "linux"
        /\ config = [provider |-> "Mock", fallback_to_internal |-> FALSE,
                     native |-> DefaultNativeConfig]
        /\ provider = MockNew
        /\ initialized = FALSE
        /\ os = DefaultOs
        /\ initCalls = 0
        /\ request = None
        /\ rt = NoRuntime
        /\ shutdown = [owner |-> owner, capacity |-> capacity, queue |-> 0,
                       rx_open |-> TRUE, sent |-> 0, received |-> 0,
                       calls |-> 0, ok_stops |-> 0,
                       pc |-> [t \in Tasks |-> "idle"]]
        /\ store = NoStore
        /\ server = NoServer
        /\ call = [op |-> "new"]

\* a task calls stop() and reaches send(()).await
StopCalled(t) ==
    /\ shutdown.pc[t] = "idle"
    /\ shutdown.calls < MaxStops
    /\ shutdown' = [shutdown EXCEPT !.pc[t] = "sending", !.calls = @ + 1]
    /\ UNCHANGED <<platform, config, provider, initialized, os, initCalls, request, rt, store, server, call>>

\* send resolves and stop() returns
StopReturns(t) ==
    /\ shutdown.pc[t] = "sending"
    /\ mpsc_send_ready(shutdown)
    /\ LET r == service_stop(shutdown)
       IN /\ shutdown' = [r.ch EXCEPT !.pc[t] = "idle",
                                      !.ok_stops = IF r.ret.ok THEN @ + 1 ELSE @]
          /\ call' = [op |-> "stop", ret |-> r.ret, rx_open |-> shutdown.rx_open,
                      sent_before |-> shutdown.sent,
                      received_before |-> shutdown.received]
    /\ UNCHANGED <<platform, config, provider, initialized, os, initCalls, request, rt, store, server>>

\* Receiver::recv takes a signal
Recv ==
    /\ shutdown.rx_open
    /\ shutdown.queue > 0
    /\ shutdown' = [shutdown EXCEPT !.queue = @ - 1, !.received = @ + 1]
    /\ UNCHANGED <<platform, config, provider, initialized, os, initCalls, request, rt, store, server, call>>

\* the receiver is dropped: the channel closes and what it buffered is lost
DropReceiver ==
    /\ shutdown.rx_open
    /\ shutdown' = [shutdown EXCEPT !.rx_open = FALSE, !.queue = 0]
    /\ UNCHANGED <<platform, config, provider, initialized, os, initCalls, request, rt, store, server, call>>

ShutdownNext ==
    \/ \E t \in Tasks : StopCalled(t)
    \/ \E t \in Tasks : StopReturns(t)
    \/ Recv
    \/ DropReceiver

ShutdownSpec == ShutdownInit /\ [][ShutdownNext]_vars

\* C26: stop() of Service and of ServiceLifecycle puts exactly one signal on the
\* shutdown channel per stop that returns Ok, and the receiver finds each of them;
\* no stopped state is kept, so while the receiver is held a stop() returns Ok and
\* delivers a signal however many stops went before, a stop issued after the first
\* signal was consumed included
C26_OneSignalPerStop ==
    /\ shutdown.ok_stops = shutdown.sent
    /\ shutdown.rx_open => shutdown.sent = shutdown.received + shutdown.queue
    /\ call.op = "stop"
         => /\ call.rx_open => call.ret = Ok("unit")
            /\ shutdown.sent = call.sent_before + (IF call.ret.ok THEN 1 ELSE 0)

\* on a channel of capacity 1 a second stop(), issued after the receiver took the
\* first signal, returned Ok and its signal waits in the channel
C26_Witness ==
    /\ call.op = "stop" /\ call.ret = Ok("unit")
    /\ shutdown.capacity = 1
    /\ call.sent_before = 1 /\ call.received_before = 1
    /\ shutdown.ok_stops = 2
    /\ shutdown.queue = 1

-----------------------------------------------------------------------------
(* The initialization specification: initialize() of a manager whose provider  *)
(* is one of the crate's, or an implementation whose initialize() may fail     *)

InitInit ==
    \E plat \in NativeVariants, kind \in {"Native", "Mock"}, fb \in BOOLEAN,
       external \in BOOLEAN, a \in BOOLEAN :
        LET cfg == [provider |-> kind, fallback_to_internal |-> fb,
                    native |-> [DefaultNativeConfig EXCEPT !.allow_all_users = a]]
        IN /\ platform = plat
           /\ config = cfg
           /\ provider = IF external THEN ExternalNew ELSE create_provider(cfg, plat).val
           /\ initialized = FALSE
           /\ os = DefaultOs
           /\ initCalls = 0
           /\ request = None
           /\ rt = NoRuntime
           /\ shutdown = NoChannel
           /\ store = NoStore
           /\ server = NoServer
           /\ call = [op |-> "new"]

InitNext == Initialize

InitSpec == InitInit /\ [][InitNext]_vars

\* C28: when the active provider's initialize() fails, initialize() of the manager
\* returns that error and the manager stays uninitialized, and a later call runs
\* the provider's initialize() again instead of returning the no-op Ok; in every
\* reachable state initialized implies that the provider's initialize() completed
\* successfully
C28_FailedInitializeRetried ==
    [](initialized => /\ initCalls >= 1
                      /\ call.op = "initialize" /\ call.ret = Ok("unit")
                      /\ provider.variant \in {"mock", "external"} => provider.initialized)
    /\ [][Initialize =>
            IF initialized
            THEN /\ call'.ret = Ok("unit")
                 /\ UNCHANGED <<provider, initialized, initCalls>>
            ELSE /\ initCalls' = initCalls + 1
                 /\ initialized' = call'.ret.ok
                 /\ ~call'.ret.ok => /\ call'.ret = Err(ErrSetup)
                                     /\ provider' = provider
         ]_vars

\* the provider's initialize() failed once, the manager stayed uninitialized, and
\* the next initialize() ran the provider's initialize() again, which succeeded
C28_Witness ==
    /\ call.op = "initialize" /\ ~call.was_initialized
    /\ initCalls = 2
    /\ initialized
    /\ call.ret = Ok("unit")

-----------------------------------------------------------------------------
(* The user-store specification: server::user::UserManager. Each operation     *)
(* holds the write side of the users lock from its first line to its return,   *)
(* so concurrent calls take effect one after the other.                        *)

ErrAlreadyExists == "Resource already exists: User with username already exists"
ErrNotFound == "Resource not found: User with ID not found"

\* the ids of the users a caller may pass
StoreIds == {"id-a", "id-b", "id-c"}

\* server::user::User, as far as UserManager reads it
StoredUser(id, username) == [id |-> id, username |-> username]

\* HashMap::insert and HashMap::remove on the users map
map_insert(users, k, v) ==
    [x \in DOMAIN users \cup {k} |-> IF x = k THEN v ELSE users[x]]

map_remove(users, k) == [x \in DOMAIN users \ {k} |-> users[x]]

\* UserManager::add_user
user_manager_add_user(users, user) ==
    IF \E k \in DOMAIN users : users[k].username = user.username
    THEN [ret |-> Err(ErrAlreadyExists), users |-> users]
    ELSE [ret |-> Ok("unit"), users |-> map_insert(users, user.id, user)]

\* UserManager::update_user
user_manager_update_user(users, user) ==
    IF user.id \notin DOMAIN users
    THEN [ret |-> Err(ErrNotFound), users |-> users]
    ELSE [ret |-> Ok("unit"), users |-> map_insert(users, user.id, user)]

\* UserManager::remove_user
user_manager_remove_user(users, id) ==
    IF id \notin DOMAIN users
    THEN [ret |-> Err(ErrNotFound), users |-> users]
    ELSE [ret |-> Ok("unit"), users |-> map_remove(users, id)]

\* UserManager::new
StoreInit ==
    /\ platform = "linux"
    /\ config = [provider |-> "Mock", fallback_to_internal |-> FALSE,
                 native |-> DefaultNativeConfig]
    /\ provider = MockNew
    /\ initialized = FALSE
    /\ os = DefaultOs
    /\ initCalls = 0
    /\ request = None
    /\ rt = NoRuntime
    /\ shutdown = NoChannel
    /\ store = [users |-> EmptyMap]
    /\ server = NoServer
    /\ call = [op |-> "new"]

AddUser ==
    \E id \in StoreIds, username \in Usernames :
        LET r == user_manager_add_user(store.users, StoredUser(id, username))
        IN /\ store' = [store EXCEPT !.users = r.users]
           /\ call' = [op |-> "add_user", id |-> id, username |-> username, ret |-> r.ret]
           /\ UNCHANGED <<platform, config, provider, initialized, os, initCalls, request, rt, shutdown, server>>

StoreUpdateUser ==
    \E id \in StoreIds, username \in Usernames :
        LET r == user_manager_update_user(store.users, StoredUser(id, username))
        IN /\ store' = [store EXCEPT !.users = r.users]
           /\ call' = [op |-> "update_user", id |-> id, username |-> username, ret |-> r.ret]
           /\ UNCHANGED <<platform, config, provider, initialized, os, initCalls, request, rt, shutdown, server>>

RemoveUser ==
    \E id \in StoreIds :
        LET r == user_manager_remove_user(store.users, id)
        IN /\ store' = [store EXCEPT !.users = r.users]
           /\ call' = [op |-> "remove_user", id |-> id, ret |-> r.ret]
           /\ UNCHANGED <<platform, config, provider, initialized, os, initCalls, request, rt, shutdown, server>>

StoreNext == AddUser \/ StoreUpdateUser \/ RemoveUser

StoreSpec == StoreInit /\ [][StoreNext]_vars

\* C29: after any sequence of add_user, update_user and remove_user calls no two
\* stored users have the same username, and every user is stored under its own id
C29_UniqueUsernames ==
    /\ \A i \in DOMAIN store.users, j \in DOMAIN store.users :
          i # j => store.users[i].username # store.users[j].username
    /\ \A i \in DOMAIN store.users : store.users[i].id = i

-----------------------------------------------------------------------------
(* The server specification: server::Server with its accept loop, one task per *)
(* session, a caller of stop(), and the clients at the other end of the        *)
(* connections. A tokio Mutex is held by one task at a time; a task that asks  *)
(* for a held mutex waits at that await.                                       *)

SessionIds == 1..MaxSessions

\* the task that calls Server::stop
StopTask == MaxSessions + 1

RECURSIVE IterationOrders(_)
\* the orders in which HashMap::iter may yield the keys
IterationOrders(S) ==
    IF S = {} THEN {<<>>}
    ELSE UNION {{<<x>> \o p : p \in IterationOrders(S \ {x})} : x \in S}

\* Server::new
ServerInit ==
    /\ platform = "linux"
    /\ config = [provider |-> "Mock", fallback_to_internal |-> FALSE,
                 native |-> DefaultNativeConfig]
    /\ provider = MockNew
    /\ initialized = FALSE
    /\ os = DefaultOs
    /\ initCalls = 0
    /\ request = None
    /\ rt = NoRuntime
    /\ shutdown = NoChannel
    /\ store = NoStore
    /\ server = [running |-> FALSE, started |-> FALSE,
                 sessions |-> EmptyMap,
                 conn |-> [s \in SessionIds |-> "none"],
                 served |-> [s \in SessionIds |-> FALSE],
                 sessions_lock |-> NoTask,
                 session_lock |-> [s \in SessionIds |-> NoTask],
                 pc |-> [s \in SessionIds |-> "unborn"],
                 stop_pc |-> "idle", pending |-> <<>>]
    /\ call = [op |-> "new"]

\* Server::run up to the accept loop: the listener is bound, running is set
Run ==
    /\ ~server.started
    /\ server' = [server EXCEPT !.started = TRUE, !.running = TRUE]
    /\ UNCHANGED <<platform, config, provider, initialized, os, initCalls, request, rt, shutdown, store, call>>

\* one turn of the accept loop: a connection arrives, its Session is stored under
\* the sessions lock, and a task is spawned for it
Accept(s) ==
    /\ server.started
    /\ server.conn[s] = "none"
    /\ server.sessions_lock = NoTask
    /\ server' = [server EXCEPT !.conn[s] = "open",
                                !.sessions = map_insert(@, s, "Connected"),
                                !.pc[s] = "handle_session"]
    /\ UNCHANGED <<platform, config, provider, initialized, os, initCalls, request, rt, shutdown, store, call>>

\* handle_session: the Arc of the session is cloned out of the map under the
\* sessions lock
HandleSessionGet(s) ==
    /\ server.pc[s] = "handle_session"
    /\ server.sessions_lock = NoTask
    /\ server' = [server EXCEPT !.pc[s] = IF s \in DOMAIN server.sessions
                                          THEN "lock_session" ELSE "remove_session"]
    /\ UNCHANGED <<platform, config, provider, initialized, os, initCalls, request, rt, shutdown, store, call>>

\* handle_session takes the session's mutex and enters Session::process, which
\* runs the handshake and the authentication and waits in stream.read
HandleSessionProcess(s) ==
    /\ server.pc[s] = "lock_session"
    /\ server.session_lock[s] = NoTask
    /\ server' = [server EXCEPT !.session_lock[s] = s,
                                !.sessions[s] = "Authenticated",
                                !.pc[s] = "read"]
    /\ UNCHANGED <<platform, config, provider, initialized, os, initCalls, request, rt, shutdown, store, call>>

\* Session::process: the client sent bytes, the response is written, the loop
\* goes back to stream.read
ProcessData(s) ==
    /\ server.pc[s] = "read"
    /\ server.conn[s] = "open"
    /\ ~server.served[s]
    /\ server' = [server EXCEPT !.served[s] = TRUE]
    /\ UNCHANGED <<platform, config, provider, initialized, os, initCalls, request, rt, shutdown, store, call>>

\* Session::process: read returns Ok(0), process returns, and handle_session
\* drops the session's mutex
ProcessEof(s) ==
    /\ server.pc[s] = "read"
    /\ server.conn[s] = "closed"
    /\ server' = [server EXCEPT !.session_lock[s] = NoTask, !.pc[s] = "remove_session"]
    /\ UNCHANGED <<platform, config, provider, initialized, os, initCalls, request, rt, shutdown, store, call>>

\* the client closes its end of the connection
ClientCloses(s) ==
    /\ server.conn[s] = "open"
    /\ server' = [server EXCEPT !.conn[s] = "closed"]
    /\ UNCHANGED <<platform, config, provider, initialized, os, initCalls, request, rt, shutdown, store, call>>

\* remove_session takes the sessions lock
RemoveSessionLock(s) ==
    /\ server.pc[s] = "remove_session"
    /\ server.sessions_lock = NoTask
    /\ server' = [server EXCEPT !.sessions_lock = s, !.pc[s] = "remove_locked"]
    /\ UNCHANGED <<platform, config, provider, initialized, os, initCalls, request, rt, shutdown, store, call>>

\* remove_session, holding the sessions lock: the session's mutex is taken for
\* disconnect(), the entry is removed, both locks are dropped
RemoveSessionDisconnect(s) ==
    /\ server.pc[s] = "remove_locked"
    /\ s \in DOMAIN server.sessions => server.session_lock[s] = NoTask
    /\ server' = [server EXCEPT !.sessions = map_remove(@, s),
                                !.sessions_lock = NoTask,
                                !.pc[s] = "done"]
    /\ UNCHANGED <<platform, config, provider, initialized, os, initCalls, request, rt, shutdown, store, call>>

\* Server::stop is called on a running server: running is set to false
ServerStop ==
    /\ server.started
    /\ server.stop_pc = "idle"
    /\ server' = [server EXCEPT !.running = FALSE, !.stop_pc = "lock_sessions"]
    /\ UNCHANGED <<platform, config, provider, initialized, os, initCalls, request, rt, shutdown, store, call>>

\* stop takes the sessions lock and starts to iterate over the map
ServerStopLock ==
    /\ server.stop_pc = "lock_sessions"
    /\ server.sessions_lock = NoTask
    /\ \E order \in IterationOrders(DOMAIN server.sessions) :
          server' = [server EXCEPT !.sessions_lock = StopTask,
                                   !.pending = order, !.stop_pc = "iterate"]
    /\ UNCHANGED <<platform, config, provider, initialized, os, initCalls, request, rt, shutdown, store, call>>

\* one turn of stop's loop: the next session's mutex is taken, disconnect() sets
\* its state to Closed, the mutex is dropped
ServerStopDisconnect ==
    /\ server.stop_pc = "iterate"
    /\ server.pending # <<>>
    /\ server.session_lock[Head(server.pending)] = NoTask
    /\ server' = [server EXCEPT !.sessions[Head(server.pending)] = "Closed",
                                !.pending = Tail(@)]
    /\ UNCHANGED <<platform, config, provider, initialized, os, initCalls, request, rt, shutdown, store, call>>

\* stop's loop is over: start_time is reset, the sessions lock is dropped, stop
\* returns Ok; the call records what the caller finds
ServerStopReturns ==
    /\ server.stop_pc = "iterate"
    /\ server.pending = <<>>
    /\ server' = [server EXCEPT !.sessions_lock = NoTask, !.stop_pc = "done"]
    /\ call' = [op |-> "stop", ret |-> Ok("unit"), running |-> server.running,
                sessions |-> server.sessions]
    /\ UNCHANGED <<platform, config, provider, initialized, os, initCalls, request, rt, shutdown, store>>

\* the steps of the task spawned for session s
SessionTask(s) ==
    \/ HandleSessionGet(s)
    \/ HandleSessionProcess(s)
    \/ ProcessEof(s)
    \/ RemoveSessionLock(s)
    \/ RemoveSessionDisconnect(s)

\* the steps of the task inside stop()
StopSteps == ServerStopLock \/ ServerStopDisconnect \/ ServerStopReturns

ServerNext ==
    \/ Run
    \/ \E s \in SessionIds : Accept(s)
    \/ \E s \in SessionIds : SessionTask(s)
    \/ \E s \in SessionIds : ProcessData(s)
    \/ \E s \in SessionIds : ClientCloses(s)
    \/ ServerStop
    \/ StopSteps

\* the runtime polls every task that can go on, and a tokio Mutex serves its
\* waiters in order; what the clients do, and when stop() is called, is free
ServerSpec ==
    /\ ServerInit /\ [][ServerNext]_vars
    /\ \A s \in SessionIds : SF_vars(SessionTask(s))
    /\ SF_vars(StopSteps)

\* C30: stop() always completes, with running false and every session of the map
\* Closed, even while session tasks are inside process() and the clients keep
\* their connections open; and every session whose processing ended is eventually
\* removed from the sessions map
C30_StopCompletes ==
    /\ (server.stop_pc # "idle") ~> (server.stop_pc = "done")
    /\ [](call.op = "stop"
            => /\ ~call.running
               /\ \A s \in DOMAIN call.sessions : call.sessions[s] = "Closed")
    /\ \A s \in SessionIds :
          (server.pc[s] = "remove_session") ~> (s \notin DOMAIN server.sessions)

====
